---------------------------- MODULE Spec2Model ----------------------------
(***************************************************************************)
(* Claim matching of the OpenDental connector:                             *)
(*   src/src/extractors/opendental/claims_od_connector/                    *)
(*       claimsMatchingOpenDental.py   (NicknameMapper, ClaimMatcher)      *)
(*   src/src/extractors/opendental/claims_extractor.py                     *)
(*       (OpenDentalAPI.find_matching_claims, the orchestrator)            *)
(*                                                                         *)
(* Python strings are sequences of one-character strings, so that          *)
(* normalisation, splitting and pattern matching are computed character    *)
(* by character.  None, "" and a missing key (all falsy) are <<>>.         *)
(***************************************************************************)
EXTENDS Integers, Sequences, FiniteSets, TLC

VARIABLES
    op,         \* the operation called last ("idle" after construction)
    args,       \* its arguments
    ret,        \* what it returned to its caller
    raised,     \* TRUE when it raised instead of returning
    requests,   \* the requests it issued to the remote accessor, in order
    pc,         \* position of an orchestrator call in progress
    db_matches  \* orchestrator local: the cache path's matches

vars == <<op, args, ret, raised, requests, pc, db_matches>>

(***************************************************************************)
(* Bounds of the model                                                     *)
(***************************************************************************)
MaxCodeLen == 5

\* the longest cache of claims handed to the cache path
MaxCached == 2

(***************************************************************************)
(* Characters and generic sequence helpers                                 *)
(***************************************************************************)
Digits == {"0", "1", "2", "3", "4", "5", "6", "7", "8", "9"}

LowerLetters ==
    {"a", "b", "c", "d", "e", "f", "g", "h", "i", "j", "k", "l", "m",
     "n", "o", "p", "q", "r", "s", "t", "u", "v", "w", "x", "y", "z"}

UpperLetters ==
    {"A", "B", "C", "D", "E", "F", "G", "H", "I", "J", "K", "L", "M",
     "N", "O", "P", "Q", "R", "S", "T", "U", "V", "W", "X", "Y", "Z"}

Range(s) == {s[i] : i \in DOMAIN s}

Max2(a, b) == IF a >= b THEN a ELSE b

Min2(a, b) == IF a <= b THEN a ELSE b

\* str.isdigit(): non-empty and every character a digit
IsDigitStr(s) == Len(s) > 0 /\ \A i \in DOMAIN s : s[i] \in Digits

(***************************************************************************)
(* ClaimMatcher.normalize_procedure_code                                   *)
(***************************************************************************)
RECURSIVE StripLeadingZeros(_)
StripLeadingZeros(digits) ==
    IF Len(digits) > 4 /\ digits[1] = "0"
    THEN StripLeadingZeros(Tail(digits))
    ELSE digits

NormalizeProcedureCode(code) ==
    IF code = <<>> THEN code
    ELSE IF code[1] = "D" /\ Len(code) > 5 /\ IsDigitStr(Tail(code))
         THEN <<"D">> \o StripLeadingZeros(Tail(code))
    ELSE IF code[1] # "D" /\ IsDigitStr(code)
         THEN <<"D">> \o code
    ELSE code

(***************************************************************************)
(* ClaimMatcher._match_procedure_codes: the match percentage as the pair   *)
(* <<numerator, denominator>> (<<0, 1>> is 0.0, <<1, 1>> is 1.0)           *)
(***************************************************************************)
\* the percentage taken over the codes of both lists
MatchProcedureCodes_OverUnion(payment_codes, db_codes) ==
    IF payment_codes = <<>> \/ db_codes = <<>> THEN <<0, 1>>
    ELSE LET normalized_payment_codes ==
                 {NormalizeProcedureCode(c) : c \in Range(payment_codes)}
             normalized_db_codes ==
                 {NormalizeProcedureCode(c) : c \in Range(db_codes)}
             matching == normalized_payment_codes \cap normalized_db_codes
         IN  <<Cardinality(matching),
               Cardinality(normalized_payment_codes \cup normalized_db_codes)>>

MatchProcedureCodes(payment_codes, db_codes) ==
    IF payment_codes = <<>> \/ db_codes = <<>> THEN <<0, 1>>
    ELSE IF /\ Cardinality(Range(payment_codes)) = 1
            /\ Cardinality(Range(db_codes)) = 1
            /\ NormalizeProcedureCode(payment_codes[1])
                   = NormalizeProcedureCode(db_codes[1])
         THEN <<1, 1>>
    ELSE LET normalized_payment_codes ==
                 {NormalizeProcedureCode(c) : c \in Range(payment_codes)}
             normalized_db_codes ==
                 {NormalizeProcedureCode(c) : c \in Range(db_codes)}
             matching == normalized_payment_codes \cap normalized_db_codes
         IN  <<Cardinality(matching), Cardinality(normalized_payment_codes)>>

\* match_percentage > 0.49
Above49(pct) == 100 * pct[1] > 49 * pct[2]

(***************************************************************************)
(* str.lower(), str.strip(), re.split(r'[-\s\']+', ...) with the empty     *)
(* strings removed, and str.split()                                        *)
(***************************************************************************)
UpperSeq ==
    <<"A", "B", "C", "D", "E", "F", "G", "H", "I", "J", "K", "L", "M",
      "N", "O", "P", "Q", "R", "S", "T", "U", "V", "W", "X", "Y", "Z">>

LowerSeq ==
    <<"a", "b", "c", "d", "e", "f", "g", "h", "i", "j", "k", "l", "m",
      "n", "o", "p", "q", "r", "s", "t", "u", "v", "w", "x", "y", "z">>

LowerChar(c) ==
    IF c \in UpperLetters
    THEN LowerSeq[CHOOSE i \in DOMAIN UpperSeq : UpperSeq[i] = c]
    ELSE c

Lower(s) == [i \in DOMAIN s |-> LowerChar(s[i])]

Whitespace == {" "}

RECURSIVE LStrip(_)
LStrip(s) ==
    IF s # <<>> /\ s[1] \in Whitespace THEN LStrip(Tail(s)) ELSE s

RECURSIVE RStrip(_)
RStrip(s) ==
    IF s # <<>> /\ s[Len(s)] \in Whitespace
    THEN RStrip(SubSeq(s, 1, Len(s) - 1))
    ELSE s

Strip(s) == RStrip(LStrip(s))

\* the separators of r'[-\s\']+' and r'[\s\'\-]+'
NameSeps == {"-", " ", "'"}

\* index of the first character of s that is in seps, Len(s) + 1 if none
FirstSep(s, seps) ==
    LET hits == {i \in DOMAIN s : s[i] \in seps}
    IN  IF hits = {} THEN Len(s) + 1
        ELSE CHOOSE i \in hits : \A k \in hits : i <= k

RECURSIVE SplitOn(_, _)
SplitOn(s, seps) ==
    IF s = <<>> THEN <<>>
    ELSE IF s[1] \in seps THEN SplitOn(Tail(s), seps)
    ELSE LET n == FirstSep(s, seps)
         IN  <<SubSeq(s, 1, n - 1)>> \o SplitOn(SubSeq(s, n, Len(s)), seps)

(***************************************************************************)
(* NicknameMapper                                                          *)
(***************************************************************************)
NICKNAME_GROUPS == <<
    {<<"w","i","l","l","i","a","m">>, <<"w","i","l","l">>,
     <<"b","i","l","l">>, <<"b","i","l","l","y">>, <<"w","i","l","l","y">>,
     <<"l","i","a","m">>},
    {<<"r","o","b","e","r","t">>, <<"r","o","b">>, <<"b","o","b">>,
     <<"b","o","b","b","y">>, <<"r","o","b","b","i","e">>,
     <<"b","e","r","t">>},
    {<<"r","i","c","h","a","r","d">>, <<"r","i","c","h">>,
     <<"r","i","c","k">>, <<"r","i","c","k","y">>, <<"d","i","c","k">>,
     <<"r","i","c","h","i","e">>},
    {<<"m","i","c","h","a","e","l">>, <<"m","i","k","e">>,
     <<"m","i","k","e","y">>, <<"m","i","c","k">>,
     <<"m","i","c","k","e","y">>, <<"m","i","g","u","e","l">>},
    {<<"j","a","m","e","s">>, <<"j","i","m">>, <<"j","i","m","m","y">>,
     <<"j","a","m","i","e">>, <<"j","i","m","b","o">>},
    {<<"j","o","h","n">>, <<"j","o","h","n","n","y">>, <<"j","a","c","k">>,
     <<"j","a","c","k","i","e">>, <<"j","o","n">>},
    {<<"j","o","s","e","p","h">>, <<"j","o","e">>, <<"j","o","e","y">>,
     <<"j","o","s","e">>},
    {<<"t","h","o","m","a","s">>, <<"t","o","m">>, <<"t","o","m","m","y">>,
     <<"t","h","o","m">>},
    {<<"c","h","a","r","l","e","s">>, <<"c","h","a","r","l","i","e">>,
     <<"c","h","u","c","k">>, <<"c","h","a","s">>, <<"c","h","a","z">>},
    {<<"c","h","r","i","s","t","o","p","h","e","r">>,
     <<"c","h","r","i","s">>, <<"k","i","t">>, <<"t","o","p","h","e","r">>},
    {<<"m","a","t","t","h","e","w">>, <<"m","a","t","t">>,
     <<"m","a","t","t","y">>},
    {<<"a","n","t","h","o","n","y">>, <<"t","o","n","y">>, <<"a","n","t">>},
    {<<"d","a","n","i","e","l">>, <<"d","a","n">>, <<"d","a","n","n","y">>},
    {<<"d","a","v","i","d">>, <<"d","a","v","e">>, <<"d","a","v","e","y">>},
    {<<"k","e","n","n","e","t","h">>, <<"k","e","n">>,
     <<"k","e","n","n","y">>},
    {<<"s","t","e","p","h","e","n">>, <<"s","t","e","v","e">>,
     <<"s","t","e","v","e","n">>, <<"s","t","e","v","i","e">>},
    {<<"a","n","d","r","e","w">>, <<"a","n","d","y">>, <<"d","r","e","w">>},
    {<<"e","d","w","a","r","d">>, <<"e","d">>, <<"e","d","d","i","e">>,
     <<"t","e","d">>, <<"t","e","d","d","y">>, <<"n","e","d">>},
    {<<"l","a","w","r","e","n","c","e">>, <<"l","a","r","r","y">>,
     <<"l","a","r","s">>},
    {<<"s","a","m","u","e","l">>, <<"s","a","m">>, <<"s","a","m","m","y">>},
    {<<"b","e","n","j","a","m","i","n">>, <<"b","e","n">>,
     <<"b","e","n","n","y">>, <<"b","e","n","j","i">>},
    {<<"a","l","e","x","a","n","d","e","r">>, <<"a","l","e","x">>,
     <<"a","l">>, <<"x","a","n","d","e","r">>, <<"l","e","x">>},
    {<<"n","i","c","h","o","l","a","s">>, <<"n","i","c","k">>,
     <<"n","i","c","k","y">>, <<"n","i","c","o">>},
    {<<"e","l","i","z","a","b","e","t","h">>, <<"l","i","z">>,
     <<"l","i","z","z","i","e">>, <<"b","e","t","h">>,
     <<"b","e","t","t","y">>, <<"b","e","t","s","y">>,
     <<"e","l","i","z","a">>, <<"l","i","s","a">>},
    {<<"m","a","r","g","a","r","e","t">>, <<"m","a","g","g","i","e">>,
     <<"m","e","g">>, <<"p","e","g","g","y">>, <<"m","a","r","g","e">>,
     <<"m","a","r","g","i","e">>, <<"g","r","e","t","a">>},
    {<<"k","a","t","h","e","r","i","n","e">>, <<"k","a","t","e">>,
     <<"k","a","t","i","e">>, <<"k","a","t","h","y">>, <<"k","a","t">>,
     <<"k","i","t","t","y">>, <<"c","a","t","h","e","r","i","n","e">>,
     <<"c","a","t","h","y">>},
    {<<"p","a","t","r","i","c","i","a">>, <<"p","a","t">>,
     <<"p","a","t","t","y">>, <<"p","a","t","s","y">>,
     <<"t","r","i","s","h">>, <<"t","r","i","c","i","a">>},
    {<<"j","e","n","n","i","f","e","r">>, <<"j","e","n">>,
     <<"j","e","n","n","y">>},
    {<<"j","e","s","s","i","c","a">>, <<"j","e","s","s">>,
     <<"j","e","s","s","i","e">>},
    {<<"d","e","b","o","r","a","h">>, <<"d","e","b">>,
     <<"d","e","b","b","i","e">>, <<"d","e","b","b","y">>},
    {<<"s","u","s","a","n">>, <<"s","u","e">>, <<"s","u","s","i","e">>,
     <<"s","u","z","y">>},
    {<<"d","o","r","o","t","h","y">>, <<"d","o","t">>,
     <<"d","o","t","t","i","e">>, <<"d","o","l","l","y">>},
    {<<"b","a","r","b","a","r","a">>, <<"b","a","r","b">>,
     <<"b","a","r","b","i","e">>, <<"b","a","b","s">>},
    {<<"r","e","b","e","c","c","a">>, <<"b","e","c","c","a">>,
     <<"b","e","c","k","y">>},
    {<<"c","h","r","i","s","t","i","n","e">>, <<"c","h","r","i","s">>,
     <<"c","h","r","i","s","s","y">>, <<"t","i","n","a">>},
    {<<"v","i","c","t","o","r","i","a">>, <<"v","i","c","k","y">>,
     <<"v","i","c">>, <<"t","o","r","i">>},
    {<<"a","l","e","x","a","n","d","r","a">>, <<"a","l","e","x">>,
     <<"l","e","x","i">>, <<"l","e","x","i","e">>,
     <<"s","a","n","d","r","a">>, <<"s","a","n","d","y">>},
    {<<"s","t","e","p","h","a","n","i","e">>, <<"s","t","e","p","h">>,
     <<"s","t","e","p","h","i","e">>},
    {<<"m","i","c","h","e","l","l","e">>, <<"s","h","e","l","l","y">>,
     <<"m","i","c","h","i">>},
    {<<"k","i","m","b","e","r","l","y">>, <<"k","i","m">>,
     <<"k","i","m","m","y">>},
    {<<"a","b","i","g","a","i","l">>, <<"a","b","b","y">>,
     <<"g","a","i","l">>},
    {<<"a","m","a","n","d","a">>, <<"m","a","n","d","y">>,
     <<"m","a","n","d","a">>},
    {<<"a","n","g","e","l","a">>, <<"a","n","g","i","e">>,
     <<"a","n","g","e","l">>},
    {<<"f","r","a","n","c","i","s","c","o">>, <<"f","r","a","n","k">>,
     <<"p","a","n","c","h","o">>, <<"p","a","c","o">>,
     <<"c","i","s","c","o">>},
    {<<"g","u","a","d","a","l","u","p","e">>, <<"l","u","p","e">>,
     <<"l","u","p","i","t","a">>},
    {<<"j","o","s","e">>, <<"p","e","p","e">>, <<"j","o","e">>},
    {<<"i","g","n","a","c","i","o">>, <<"n","a","c","h","o">>},
    {<<"r","a","f","a","e","l">>, <<"r","a","f","a">>},
    {<<"e","n","r","i","q","u","e">>, <<"h","e","n","r","y">>,
     <<"q","u","i","q","u","e">>},
    {<<"g","u","i","l","l","e","r","m","o">>,
     <<"w","i","l","l","i","a","m">>, <<"m","e","m","o">>},
    {<<"a","l","e","j","a","n","d","r","o">>, <<"a","l","e","x">>,
     <<"a","l","e","j","o">>},
    {<<"r","o","b","e","r","t","o">>, <<"r","o","b","e","r","t">>,
     <<"b","e","t","o">>},
    {<<"g","e","r","a","l","d">>, <<"g","e","r","r","y">>,
     <<"j","e","r","r","y">>},
    {<<"r","a","y","m","o","n","d">>, <<"r","a","y">>},
    {<<"r","o","n","a","l","d">>, <<"r","o","n">>,
     <<"r","o","n","n","i","e">>},
    {<<"d","o","n","a","l","d">>, <<"d","o","n">>,
     <<"d","o","n","n","i","e">>},
    {<<"h","a","r","o","l","d">>, <<"h","a","r","r","y">>, <<"h","a","l">>},
    {<<"f","r","a","n","c","i","s">>, <<"f","r","a","n","k">>,
     <<"f","r","a","n">>},
    {<<"e","u","g","e","n","e">>, <<"g","e","n","e">>},
    {<<"p","h","i","l","l","i","p">>, <<"p","h","i","l">>,
     <<"p","h","i","l","i","p">>},
    {<<"t","i","m","o","t","h","y">>, <<"t","i","m">>,
     <<"t","i","m","m","y">>},
    {<<"g","r","e","g","o","r","y">>, <<"g","r","e","g">>,
     <<"g","r","e","g","g">>}
>>

\* _build_lookup_tables: a name in several groups keeps the last group's
\* index (later assignments overwrite earlier ones); 0 when in no group
NicknameToGroup(name_lower) ==
    LET idxs == {i \in DOMAIN NICKNAME_GROUPS : name_lower \in NICKNAME_GROUPS[i]}
    IN  IF idxs = {} THEN 0
        ELSE CHOOSE i \in idxs : \A k \in idxs : k <= i

GetNameVariations_OwnNameOnly(name) == {Strip(Lower(name))}

GetNameVariations(name) ==
    LET name_lower == Strip(Lower(name))
        group_idx == NicknameToGroup(name_lower)
    IN  {name_lower} \cup
        (IF group_idx = 0 THEN {} ELSE NICKNAME_GROUPS[group_idx])

\* related only when the second name is a variation of the first
AreNamesRelated_OneWay(name1, name2) ==
    LET name1_lower == Strip(Lower(name1))
        name2_lower == Strip(Lower(name2))
    IN  IF name1_lower = <<>> \/ name2_lower = <<>> THEN FALSE
        ELSE name2_lower \in GetNameVariations(name1_lower)

AreNamesRelated(name1, name2) ==
    LET name1_lower == Strip(Lower(name1))
        name2_lower == Strip(Lower(name2))
    IN  IF name1_lower = <<>> \/ name2_lower = <<>> THEN FALSE
        ELSE GetNameVariations(name1_lower)
                 \cap GetNameVariations(name2_lower) # {}

(***************************************************************************)
(* re.search of the patterns built by _build_regex_for_name_part.  A span  *)
(* <<i, j>> says that a pattern matches the characters i .. j-1 of the     *)
(* text.  The patterns are compiled with re.IGNORECASE; the token comes    *)
(* lowercased from the builder and the text lowercased from the caller.    *)
(***************************************************************************)
WordChar(c) == c \in LowerLetters \cup UpperLetters \cup Digits \cup {"_"}

\* [a-z] under re.IGNORECASE
AzChar(c) == c \in LowerLetters \cup UpperLetters

Positions(s) == 1..(Len(s) + 1)

\* \b at position i: between the characters i-1 and i
AtBoundary(s, i) ==
    ((i > 1) /\ WordChar(s[i - 1])) # ((i <= Len(s)) /\ WordChar(s[i]))

AzRun(s, i, j) == \A k \in i..(j - 1) : AzChar(s[k])

LitAt(s, i, tok) ==
    /\ i >= 1
    /\ i + Len(tok) - 1 <= Len(s)
    /\ \A k \in 1..Len(tok) : s[i + k - 1] = tok[k]

\* \bTOK[a-z]*\b
SpansFull(s, tok) ==
    {sp \in Positions(s) \X Positions(s) :
        /\ AtBoundary(s, sp[1])
        /\ LitAt(s, sp[1], tok)
        /\ sp[2] >= sp[1] + Len(tok)
        /\ AzRun(s, sp[1] + Len(tok), sp[2])
        /\ AtBoundary(s, sp[2])}

\* [a-z]*TOK\b
SpansSuffix(s, tok) ==
    {sp \in Positions(s) \X Positions(s) :
        /\ sp[2] - Len(tok) >= sp[1]
        /\ LitAt(s, sp[2] - Len(tok), tok)
        /\ AzRun(s, sp[1], sp[2] - Len(tok))
        /\ AtBoundary(s, sp[2])}

\* \b[a-z]*TOK[a-z]*\b
SpansSub(s, tok) ==
    {sp \in Positions(s) \X Positions(s) :
        /\ AtBoundary(s, sp[1])
        /\ AtBoundary(s, sp[2])
        /\ \E i \in sp[1]..sp[2] :
              /\ LitAt(s, i, tok)
              /\ i + Len(tok) <= sp[2]
              /\ AzRun(s, sp[1], i)
              /\ AzRun(s, i + Len(tok), sp[2])}

\* \bF[a-z]{lo,hi}LAST[a-z]*\b
SpansFuzzy(s, first, lo, hi, last) ==
    {sp \in Positions(s) \X Positions(s) :
        /\ AtBoundary(s, sp[1])
        /\ AtBoundary(s, sp[2])
        /\ LitAt(s, sp[1], <<first>>)
        /\ \E m \in lo..hi :
              /\ LitAt(s, sp[1] + 1 + m, last)
              /\ AzRun(s, sp[1] + 1, sp[1] + 1 + m)
              /\ sp[1] + 1 + m + Len(last) <= sp[2]
              /\ AzRun(s, sp[1] + 1 + m + Len(last), sp[2])}

\* a one-character token: (?:\bT(?:\.|[a-z]*)\b)
SpansInitial(s, tok) ==
    {sp \in Positions(s) \X Positions(s) :
        /\ AtBoundary(s, sp[1])
        /\ LitAt(s, sp[1], tok)
        /\ AtBoundary(s, sp[2])
        /\ \/ sp[2] = sp[1] + 2 /\ s[sp[1] + 1] = "."
           \/ sp[2] >= sp[1] + 1 /\ AzRun(s, sp[1] + 1, sp[2])}

\* a two-character token: \bT[a-z]{0,3}\b | [a-z]*T\b | \b[a-z]*T[a-z]*\b
SpansShort(s, tok) ==
    {sp \in SpansFull(s, tok) : sp[2] <= sp[1] + 5}
        \cup SpansSuffix(s, tok) \cup SpansSub(s, tok)

\* a longer token: the alternatives in the order the builder appends them
SpansLong(s, token) ==
    LET n == Len(token)
        last_part == IF n > 4 THEN SubSeq(token, n - 1, n) ELSE <<token[n]>>
        middle_len == n - Len(last_part) - 1
        min_prefix_len == Min2(2, n - 1)
    IN  SpansFull(s, token)
        \cup SpansSuffix(s, token)
        \cup SpansSub(s, token)
        \cup (IF n >= 5 THEN SpansFull(s, Tail(token)) ELSE {})
        \cup (IF n >= 4
              THEN SpansFuzzy(s, token[1], Max2(1, middle_len - 1),
                              middle_len + 1, last_part)
              ELSE {})
        \cup UNION {SpansFull(s, SubSeq(token, 1, prefix_len)) :
                        prefix_len \in min_prefix_len..(n - 1)}

TokenSpans(s, token) ==
    IF Len(token) = 1 THEN SpansInitial(s, token)
    ELSE IF Len(token) = 2 THEN SpansShort(s, token)
    ELSE SpansLong(s, token)

Least(S) == CHOOSE x \in S : \A y \in S : x <= y

\* the parts joined by (?:.*?| ) or (?:.*?|\s+): each part's span starts at or
\* after the end of the span before it.  part_spans[k] holds the spans of
\* the k-th part.
RECURSIVE ChainFrom(_, _)
ChainFrom(part_spans, from) ==
    IF part_spans = <<>> THEN TRUE
    ELSE LET ends == {sp[2] : sp \in {x \in Head(part_spans) : x[1] >= from}}
         IN  ends # {} /\ ChainFrom(Tail(part_spans), Least(ends))

\* ClaimMatcher._build_regex_for_name_part(query_part), searched in text
NamePartSearch(query_part, text) ==
    LET name_tokens == SplitOn(Strip(Lower(query_part)), NameSeps)
    IN  IF name_tokens = <<>> THEN TRUE   \* r".*" matches anything
        ELSE ChainFrom([k \in DOMAIN name_tokens |-> TokenSpans(text, name_tokens[k])], 1)

\* the spans of one part of a nickname-aware pattern: any of its variations
VariationSpans(s, part) ==
    UNION {TokenSpans(s, v) : v \in GetNameVariations(part)}

\* ClaimMatcher._build_regex_for_name_with_nicknames(query_name), searched
NicknameSearch(query_name, text) ==
    LET name_parts == SplitOn(Strip(Lower(query_name)), NameSeps)
    IN  IF name_parts = <<>> THEN TRUE
        ELSE IF Len(name_parts) = 1
             THEN VariationSpans(text, name_parts[1]) # {}
        ELSE \/ VariationSpans(text, name_parts[1]) # {}
             \/ ChainFrom([k \in DOMAIN name_parts |->
                               VariationSpans(text, name_parts[k])], 1)

(***************************************************************************)
(* ClaimMatcher.levenshtein_distance: the row-by-row computation           *)
(***************************************************************************)
Min3(a, b, c) == Min2(a, Min2(b, c))

\* the inner loop from column j on: current_row holds j entries
RECURSIVE LevRow(_, _, _, _, _)
LevRow(current_row, previous_row, c1, s2, j) ==
    IF j > Len(s2) THEN current_row
    ELSE LET insertions == previous_row[j + 1] + 1
             deletions == current_row[j] + 1
             substitutions == previous_row[j] + (IF c1 # s2[j] THEN 1 ELSE 0)
             next_row == Append(current_row,
                                Min3(insertions, deletions, substitutions))
         IN  IF Len(next_row) = j + 1
             THEN LevRow(next_row, previous_row, c1, s2, j + 1)
             ELSE next_row

\* the outer loop from the character i of s1 on (enumerate counts from 0)
RECURSIVE LevRows(_, _, _, _)
LevRows(previous_row, s1, s2, i) ==
    IF i > Len(s1) THEN previous_row
    ELSE LET current_row == LevRow(<<i>>, previous_row, s1[i], s2, 1)
         IN  IF Len(current_row) = Len(s2) + 1
             THEN LevRows(current_row, s1, s2, i + 1)
             ELSE current_row

LevenshteinDistance(s1, s2) ==
    LET a == IF Len(s1) < Len(s2) THEN s2 ELSE s1
        b == IF Len(s1) < Len(s2) THEN s1 ELSE s2
    IN  IF Len(b) = 0 THEN Len(a)
        ELSE LevRows([k \in 1..(Len(b) + 1) |-> k - 1], a, b, 1)[Len(b) + 1]

(***************************************************************************)
(* ClaimMatcher.normalize_name_for_matching                                *)
(***************************************************************************)
\* str.replace(old, new): left to right, without overlap
RECURSIVE ReplaceAll(_, _, _)
ReplaceAll(s, old, new) ==
    IF s = <<>> THEN <<>>
    ELSE IF LitAt(s, 1, old)
         THEN new \o ReplaceAll(SubSeq(s, Len(old) + 1, Len(s)), old, new)
    ELSE <<s[1]>> \o ReplaceAll(Tail(s), old, new)

\* ocr_fixes, in the dictionary's order; "U+FB01" and "U+FB02" stand for the
\* ligature characters fi and fl
OcrFixes == <<
    <<<<"0">>, <<"o">>>>, <<<<"1">>, <<"l">>>>, <<<<"5">>, <<"s">>>>,
    <<<<"8">>, <<"b">>>>,
    <<<<"r","n">>, <<"m">>>>, <<<<"c","l">>, <<"d">>>>,
    <<<<"v","v">>, <<"w">>>>, <<<<"i","i">>, <<"n">>>>,
    <<<<"U+FB01">>, <<"f","i">>>>, <<<<"U+FB02">>, <<"f","l">>>>,
    <<<<"o","e">>, <<"c","e">>>>, <<<<"a","e">>, <<"a">>>>,
    <<<<".">>, <<>>>>, <<<<"_">>, <<>>>>, <<<<"|">>, <<"l">>>>,
    <<<<"\\">>, <<>>>>, <<<<"/">>, <<>>>> >>

RECURSIVE ApplyOcrFixes(_, _)
ApplyOcrFixes(part, k) ==
    IF k = 0 THEN part
    ELSE ReplaceAll(ApplyOcrFixes(part, k - 1), OcrFixes[k][1], OcrFixes[k][2])

\* re.sub(r'(.)\1+', r'\1', s): every run of one character becomes one
RECURSIVE Dedupe(_)
Dedupe(s) ==
    IF Len(s) <= 1 THEN s
    ELSE IF s[1] = s[2] THEN Dedupe(Tail(s))
    ELSE <<s[1]>> \o Dedupe(Tail(s))

FixPart(part) ==
    LET fixed_part == ApplyOcrFixes(part, Len(OcrFixes))
    IN  IF Len(fixed_part) > 2 /\ Len(Dedupe(fixed_part)) >= 2
        THEN Dedupe(fixed_part)
        ELSE fixed_part

PrefixesToRemove ==
    {<<"d","r",".">>, <<"d","r">>, <<"m","r",".">>, <<"m","r">>,
     <<"m","r","s",".">>, <<"m","r","s">>, <<"m","s",".">>, <<"m","s">>,
     <<"m","i","s","s">>}

SuffixesToRemove ==
    {<<"j","r",".">>, <<"j","r">>, <<"s","r",".">>, <<"s","r">>,
     <<"i","i">>, <<"i","i","i">>, <<"i","v">>}

RECURSIVE JoinWithSpace(_)
JoinWithSpace(parts) ==
    IF parts = <<>> THEN <<>>
    ELSE IF Len(parts) = 1 THEN parts[1]
    ELSE parts[1] \o <<" ">> \o JoinWithSpace(Tail(parts))

NormalizeNameForMatching(name) ==
    LET parts == SplitOn(Lower(Strip(name)), NameSeps \cup {"."})
        kept == SelectSeq(parts,
                    LAMBDA q : q \notin PrefixesToRemove \cup SuffixesToRemove)
        cleaned_parts == IF kept = <<>> THEN parts ELSE kept
    IN  JoinWithSpace([k \in DOMAIN cleaned_parts |-> FixPart(cleaned_parts[k])])

(***************************************************************************)
(* ClaimMatcher.calculate_enhanced_similarity: the 'score' of its result   *)
(***************************************************************************)
IsInfix(shorter, longer) ==
    \E i \in 1..(Len(longer) - Len(shorter) + 1) : LitAt(longer, i, shorter)

Vowels == {"a", "e", "i", "o", "u"}

RECURSIVE SoundexBody(_, _)
SoundexBody(result, rest) ==
    IF rest = <<>> THEN result
    ELSE IF rest[1] \notin Vowels /\ rest[1] # result[Len(result)]
         THEN SoundexBody(Append(result, rest[1]), Tail(rest))
    ELSE SoundexBody(result, Tail(rest))

\* result[:4].ljust(4, '0')
SimpleSoundex(name) ==
    IF name = <<>> THEN <<>>
    ELSE LET result == SoundexBody(<<name[1]>>, Tail(name))
         IN  [k \in 1..4 |-> IF k <= Len(result) THEN result[k] ELSE "0"]

CalculateEnhancedSimilarity(name1, name2) ==
    IF name1 = <<>> \/ name2 = <<>> THEN 0
    ELSE
    LET norm1 == NormalizeNameForMatching(name1)
        norm2 == NormalizeNameForMatching(name2)
        shorter == IF Len(norm1) < Len(norm2) THEN norm1 ELSE norm2
        longer == IF Len(norm1) < Len(norm2) THEN norm2 ELSE norm1
        distance == LevenshteinDistance(norm1, norm2)
        max_len == Max2(Len(norm1), Len(norm2))
        common == Cardinality(Range(norm1) \cap Range(norm2))
        either == Cardinality(Range(norm1) \cup Range(norm2))
        phonetic_match == SimpleSoundex(norm1) = SimpleSoundex(norm2)
    IN  IF norm1 = <<>> \/ norm2 = <<>> THEN 0
        ELSE IF norm1 = norm2 THEN 15
        ELSE IF Len(shorter) >= 2 /\ IsInfix(shorter, longer)
             THEN (IF LitAt(longer, 1, shorter) THEN 12
                   ELSE IF LitAt(longer, Len(longer) - Len(shorter) + 1, shorter)
                        THEN 12
                   ELSE 10)
        \* levenshtein_similarity = 1 - distance / max_len against 0.9 .. 0.6
        ELSE IF 10 * (max_len - distance) >= 9 * max_len THEN 12
        ELSE IF 10 * (max_len - distance) >= 8 * max_len THEN 10
        ELSE IF 10 * (max_len - distance) >= 7 * max_len THEN 8
        ELSE IF 10 * (max_len - distance) >= 6 * max_len THEN 5
        \* char_overlap = common / either against 0.5 and 0.7
        ELSE IF phonetic_match /\ 2 * common > either THEN 6
        ELSE IF 10 * common > 7 * either THEN 4
        ELSE 0

(***************************************************************************)
(* ClaimMatcher._calculate_name_match_score_with_nicknames                 *)
(***************************************************************************)
FnScoreComponent(crit_fn_q, claim_fn_clean) ==
    IF AreNamesRelated(crit_fn_q, claim_fn_clean) THEN 15
    ELSE IF NicknameSearch(crit_fn_q, claim_fn_clean) THEN 15
    ELSE 0

LnScoreComponent(crit_ln_q, claim_ln_clean) ==
    IF claim_ln_clean = <<>> THEN 0
    ELSE IF NamePartSearch(crit_ln_q, claim_ln_clean) THEN 15
    ELSE LET crit_ln_parts == SplitOn(crit_ln_q, NameSeps)
         IN  IF /\ Len(crit_ln_parts) > 1
                /\ \E k \in DOMAIN crit_ln_parts :
                       NamePartSearch(crit_ln_parts[k], claim_ln_clean)
             THEN 15
             ELSE CalculateEnhancedSimilarity(crit_ln_q, claim_ln_clean)

CalculateNameMatchScore(claim_patient_fn, claim_patient_ln, criteria_patient_fn_query, criteria_patient_ln_query) ==
    LET crit_fn_q == Lower(Strip(criteria_patient_fn_query))
        crit_ln_q == Lower(Strip(criteria_patient_ln_query))
        claim_fn_clean == Lower(Strip(claim_patient_fn))
        claim_ln_clean == Lower(Strip(claim_patient_ln))
        fn_score_component == FnScoreComponent(crit_fn_q, claim_fn_clean)
    IN  IF crit_fn_q = <<>> THEN 0
        ELSE IF claim_fn_clean = <<>> THEN 0
        ELSE IF fn_score_component = 0 THEN 0   \* first name must match
        ELSE IF crit_ln_q # <<>>
             THEN fn_score_component
                      + LnScoreComponent(crit_ln_q, claim_ln_clean)
        ELSE fn_score_component + 15

(***************************************************************************)
(* datetime.strptime(s, '%Y-%m-%d').date(): <<y, m, d>>, or <<>> for the   *)
(* ValueError of a string that does not parse                              *)
(***************************************************************************)
DigitSeq == <<"0", "1", "2", "3", "4", "5", "6", "7", "8", "9">>

DigitValue(c) == (CHOOSE i \in DOMAIN DigitSeq : DigitSeq[i] = c) - 1

RECURSIVE ToNat(_)
ToNat(s) ==
    IF s = <<>> THEN 0
    ELSE 10 * ToNat(SubSeq(s, 1, Len(s) - 1)) + DigitValue(s[Len(s)])

IsLeap(y) == (y % 4 = 0 /\ y % 100 # 0) \/ y % 400 = 0

DaysInMonth(y, m) ==
    IF m = 2 THEN (IF IsLeap(y) THEN 29 ELSE 28)
    ELSE IF m \in {4, 6, 9, 11} THEN 30
    ELSE 31

\* every string read as the same date
ParseDate_AnyString(s) == <<2024, 3, 5>>

\* %m is 1[0-2]|0[1-9]|[1-9]; %d is 3[01]|[12]\d|0[1-9]|[1-9]| [1-9]
ParseDate(s) ==
    LET second == {h \in {7, 8} : h <= Len(s) /\ s[h] = "-"}
        h == Least(second)
        ys == SubSeq(s, 1, 4)
        ms == SubSeq(s, 6, h - 1)
        ds == SubSeq(s, h + 1, Len(s))
        dd == IF Len(ds) = 2 /\ ds[1] = " " THEN Tail(ds) ELSE ds
    IN  IF Len(s) < 8 \/ s[5] # "-" \/ second = {} THEN <<>>
        ELSE IF ~IsDigitStr(ys) \/ ~IsDigitStr(ms) \/ ~IsDigitStr(dd) THEN <<>>
        ELSE IF Len(ds) > 2 \/ (Len(ds) = 2 /\ ds[1] = " " /\ ds[2] = "0") THEN <<>>
        ELSE IF ToNat(ys) < 1 \/ ToNat(ms) \notin 1..12 THEN <<>>
        ELSE IF ToNat(dd) \notin 1..DaysInMonth(ToNat(ys), ToNat(ms)) THEN <<>>
        ELSE <<ToNat(ys), ToNat(ms), ToNat(dd)>>

\* date1 > date2 for parsed dates
DateAfter(d1, d2) ==
    \/ d1[1] > d2[1]
    \/ d1[1] = d2[1] /\ d1[2] > d2[2]
    \/ d1[1] = d2[1] /\ d1[2] = d2[2] /\ d1[3] > d2[3]

(***************************************************************************)
(* sorted(): a stable insertion sort of <<key, value>> pairs by ascending  *)
(* key.  A pair goes ahead of the first one whose key is strictly larger,  *)
(* so equal keys keep their order.                                         *)
(***************************************************************************)
RECURSIVE InsertSorted(_, _)
InsertSorted(sorted, x) ==
    IF sorted = <<>> THEN <<x>>
    ELSE IF x[1] < sorted[1][1] THEN <<x>> \o sorted
    ELSE <<sorted[1]>> \o InsertSorted(Tail(sorted), x)

RECURSIVE SortedPairs(_)
SortedPairs(pairs) ==
    IF pairs = <<>> THEN <<>>
    ELSE InsertSorted(SortedPairs(SubSeq(pairs, 1, Len(pairs) - 1)),
                      pairs[Len(pairs)])

\* sorted(s, key=...): keys[k] is the key of s[k]
SortedBy(keys, s) ==
    LET sorted == SortedPairs([k \in DOMAIN s |-> <<keys[k], s[k]>>])
    IN  [k \in DOMAIN sorted |-> sorted[k][2]]

\* sorted(s, key=score, reverse=True): reverse keeps the order of equal keys
Descending(scores) == [k \in DOMAIN scores |-> 0 - scores[k]]

(***************************************************************************)
(* Python floats, as the fee comparison computes with them: IEEE-754       *)
(* binary64 with round-to-nearest-even.  A natural number too wide for one *)
(* machine word is a sequence of limbs, least significant first, without   *)
(* leading zeros; a float is [m, e] with value m * 2^e and m of exactly 53 *)
(* bits, or m = <<>> for 0.0.                                              *)
(***************************************************************************)
LimbBits == 15

LimbBase == 32768

MantissaBits == 53

RECURSIVE Pow2(_)
Pow2(k) == IF k = 0 THEN 1 ELSE 2 * Pow2(k - 1)

RECURSIVE BigNorm(_)
BigNorm(a) ==
    IF a # <<>> /\ a[Len(a)] = 0 THEN BigNorm(SubSeq(a, 1, Len(a) - 1)) ELSE a

RECURSIVE BigOfInt(_)
BigOfInt(i) == IF i = 0 THEN <<>> ELSE <<i % LimbBase>> \o BigOfInt(i \div LimbBase)

Limb(a, k) == IF k \in DOMAIN a THEN a[k] ELSE 0

\* -1, 0 or 1 as a is below, equal to or above b
RECURSIVE BigCmpFrom(_, _, _)
BigCmpFrom(a, b, k) ==
    IF k = 0 THEN 0
    ELSE IF Limb(a, k) < Limb(b, k) THEN -1
    ELSE IF Limb(a, k) > Limb(b, k) THEN 1
    ELSE BigCmpFrom(a, b, k - 1)

BigCmp(a, b) == BigCmpFrom(a, b, IF Len(a) >= Len(b) THEN Len(a) ELSE Len(b))

RECURSIVE BigAddFrom(_, _, _, _)
BigAddFrom(a, b, k, carry) ==
    IF k > Len(a) /\ k > Len(b)
    THEN IF carry = 0 THEN <<>> ELSE <<carry>>
    ELSE LET sum == Limb(a, k) + Limb(b, k) + carry
         IN  <<sum % LimbBase>> \o BigAddFrom(a, b, k + 1, sum \div LimbBase)

BigAdd(a, b) == BigAddFrom(a, b, 1, 0)

\* a - b for a >= b
RECURSIVE BigSubFrom(_, _, _, _)
BigSubFrom(a, b, k, borrow) ==
    IF k > Len(a) THEN <<>>
    ELSE LET diff == Limb(a, k) - Limb(b, k) - borrow
         IN  IF diff < 0 THEN <<diff + LimbBase>> \o BigSubFrom(a, b, k + 1, 1)
             ELSE <<diff>> \o BigSubFrom(a, b, k + 1, 0)

BigSub(a, b) == BigNorm(BigSubFrom(a, b, 1, 0))

\* a * s for 0 <= s < LimbBase
RECURSIVE BigMulSmallFrom(_, _, _, _)
BigMulSmallFrom(a, s, k, carry) ==
    IF k > Len(a) THEN IF carry = 0 THEN <<>> ELSE <<carry>>
    ELSE LET prod == a[k] * s + carry
         IN  <<prod % LimbBase>> \o BigMulSmallFrom(a, s, k + 1, prod \div LimbBase)

BigMulSmall(a, s) == BigNorm(BigMulSmallFrom(a, s, 1, 0))

\* <<a div s, a mod s>> for 0 < s < LimbBase
RECURSIVE BigDivSmallFrom(_, _, _, _)
BigDivSmallFrom(a, s, k, rem) ==
    IF k = 0 THEN <<<<>>, rem>>
    ELSE LET cur == rem * LimbBase + a[k]
             lower == BigDivSmallFrom(a, s, k - 1, cur % s)
         IN  <<Append(lower[1], cur \div s), lower[2]>>

BigDivSmall(a, s) ==
    LET divided == BigDivSmallFrom(a, s, Len(a), 0)
    IN  <<BigNorm(divided[1]), divided[2]>>

Zeros(n) == [k \in 1..n |-> 0]

\* a * 2^k
BigShl(a, k) ==
    IF a = <<>> THEN <<>>
    ELSE Zeros(k \div LimbBits) \o BigMulSmall(a, Pow2(k % LimbBits))

\* a div 2^k
BigShr(a, k) ==
    IF Len(a) <= k \div LimbBits THEN <<>>
    ELSE BigDivSmall(SubSeq(a, (k \div LimbBits) + 1, Len(a)), Pow2(k % LimbBits))[1]

RECURSIVE BitLenInt(_)
BitLenInt(i) == IF i = 0 THEN 0 ELSE 1 + BitLenInt(i \div 2)

BigBitLen(a) == IF a = <<>> THEN 0 ELSE LimbBits * (Len(a) - 1) + BitLenInt(a[Len(a)])

BigOdd(a) == a # <<>> /\ a[1] % 2 = 1

\* the float nearest to n * 2^e, ties to the even mantissa
FloatRound(n, e) ==
    LET drop == BigBitLen(n) - MantissaBits
        kept == BigShr(n, drop)
        dropped == BigSub(n, BigShl(kept, drop))
        half == BigShl(<<1>>, drop - 1)
        up == BigCmp(dropped, half) = 1 \/ (BigCmp(dropped, half) = 0 /\ BigOdd(kept))
        rounded == IF up THEN BigAdd(kept, <<1>>) ELSE kept
    IN  IF n = <<>> THEN [m |-> <<>>, e |-> 0]
        ELSE IF drop <= 0 THEN [m |-> BigShl(n, -drop), e |-> e + drop]
        ELSE IF BigBitLen(rounded) > MantissaBits
             THEN [m |-> BigShr(rounded, 1), e |-> e + drop + 1]
        ELSE [m |-> rounded, e |-> e + drop]

\* num / den of two integers, 0 <= num, 0 < den < LimbBase
FloatOfRatio(num, den) ==
    LET parts == BigDivSmall(BigShl(BigOfInt(num), 75), den)
        sticky == IF parts[2] = 0 THEN <<>> ELSE <<1>>
    IN  FloatRound(BigAdd(BigShl(parts[1], 1), sticky), -76)

\* the mantissas of x and y at their common lower exponent
Aligned(x, y) ==
    LET low == IF x.e <= y.e THEN x.e ELSE y.e
    IN  [x |-> BigShl(x.m, x.e - low), y |-> BigShl(y.m, y.e - low), e |-> low]

FloatCmp(x, y) ==
    IF x.m = <<>> \/ y.m = <<>> THEN BigCmp(x.m, y.m)
    ELSE BigCmp(Aligned(x, y).x, Aligned(x, y).y)

FloatLe(x, y) == FloatCmp(x, y) <= 0

\* abs(x - y)
FloatAbsDiff(x, y) ==
    IF x.m = <<>> THEN y
    ELSE IF y.m = <<>> THEN x
    ELSE LET both == Aligned(x, y)
         IN  IF BigCmp(both.x, both.y) >= 0
             THEN FloatRound(BigSub(both.x, both.y), both.e)
             ELSE FloatRound(BigSub(both.y, both.x), both.e)

\* one step of binary long division: the next quotient bit and remainder
DivStep(rem, d, q) ==
    IF BigCmp(BigShl(rem, 1), d) >= 0
    THEN <<BigSub(BigShl(rem, 1), d), BigAdd(BigShl(q, 1), <<1>>)>>
    ELSE <<BigShl(rem, 1), BigShl(q, 1)>>

\* <<quotient, remainder>> after that many further steps
RECURSIVE DivBits(_, _, _, _)
DivBits(rem, d, q, steps) ==
    IF steps = 0 THEN <<q, rem>>
    ELSE CHOOSE result \in {DivBits(step[1], d, step[2], steps - 1) :
                                step \in {DivStep(rem, d, q)}} : TRUE

\* x / y for y > 0
FloatDiv(x, y) ==
    LET first == IF BigCmp(x.m, y.m) >= 0
                 THEN <<<<1>>, BigSub(x.m, y.m)>> ELSE <<<<>>, x.m>>
        bits == DivBits(first[2], y.m, first[1], 56)
        sticky == IF bits[2] = <<>> THEN <<>> ELSE <<1>>
    IN  IF x.m = <<>> THEN x
        ELSE FloatRound(BigAdd(BigShl(bits[1], 1), sticky), x.e - y.e - 57)

FloatMax(x, y) == IF FloatCmp(x, y) >= 0 THEN x ELSE y

\* an amount of cents as the float of its dollars
Dollars(cents) == FloatOfRatio(cents, 100)

\* fee_diff = abs(pms_fee - eob_fee)
FeeDiff(pms_fee, eob_fee) == FloatAbsDiff(Dollars(pms_fee), Dollars(eob_fee))

\* fee_ratio = fee_diff / max(pms_fee, eob_fee)
FeeRatio(pms_fee, eob_fee) ==
    FloatDiv(FeeDiff(pms_fee, eob_fee), FloatMax(Dollars(pms_fee), Dollars(eob_fee)))

(***************************************************************************)
(* ClaimMatcher._has_strong_non_procedure_match_with_fees.  Amounts are    *)
(* in cents.  claim_procedures carry fee_billed, eob_procedures carry      *)
(* submitted_amt.                                                          *)
(***************************************************************************)
FeePairMatches(pms_fee, eob_fee) ==
    \/ FloatLe(FeeDiff(pms_fee, eob_fee), FloatOfRatio(1, 1))       \* fee_diff <= 1.0
    \/ FloatLe(FeeRatio(pms_fee, eob_fee), FloatOfRatio(2, 100))    \* fee_ratio <= 0.02

HasStrongNonProcedureMatchWithFees(claim_date_obj, target_date_obj, name_score, claim_procedures, eob_procedures) ==
    LET pms == SelectSeq(claim_procedures, LAMBDA q : q.fee_billed > 0)
        eob == SelectSeq(eob_procedures, LAMBDA q : q.submitted_amt > 0)
        pms_fees == [k \in DOMAIN pms |-> pms[k].fee_billed]
        eob_fees == [k \in DOMAIN eob |-> eob[k].submitted_amt]
        pms_fees_sorted == SortedBy(pms_fees, pms_fees)
        eob_fees_sorted == SortedBy(eob_fees, eob_fees)
        total_fees == Len(pms_fees_sorted)
        fee_matches == Cardinality({k \in 1..total_fees :
                           FeePairMatches(pms_fees_sorted[k], eob_fees_sorted[k])})
    IN  /\ claim_date_obj = target_date_obj
        /\ name_score >= 25
        /\ claim_procedures # <<>> /\ eob_procedures # <<>>
        /\ pms # <<>> /\ eob # <<>>
        /\ Len(pms) = Len(eob)
        \* fee_matches / total_fees >= 0.8
        /\ FloatLe(FloatOfRatio(8, 10), FloatOfRatio(fee_matches, total_fees))

(***************************************************************************)
(* ClaimMatcher._has_procedure_count_match                                 *)
(***************************************************************************)
\* the count check that asks for at least one line
HasProcedureCountMatch_NonzeroOnly(claim_date_obj, target_date_obj, name_score, claim_procedures, eob_procedures) ==
    /\ claim_date_obj = target_date_obj
    /\ name_score >= 20
    /\ Len(claim_procedures) = Len(eob_procedures)
    /\ Len(claim_procedures) > 0

HasProcedureCountMatch(claim_date_obj, target_date_obj, name_score, claim_procedures, eob_procedures) ==
    /\ claim_date_obj = target_date_obj
    /\ name_score >= 20
    /\ Len(claim_procedures) = Len(eob_procedures)

(***************************************************************************)
(* The name gate of _score_api_claim_candidate and filter_cached_claims:   *)
(* the name score, retried with the criteria names swapped when below 20.  *)
(* The result is the score that passed, or <<>> when both attempts fail.   *)
(***************************************************************************)
\* the name gate without its second attempt
NameGate_NoSwapRetry(claim_fn, claim_ln, crit_fn, crit_ln) ==
    LET name_score == CalculateNameMatchScore(claim_fn, claim_ln, crit_fn, crit_ln)
    IN  IF name_score >= 20 THEN <<name_score>> ELSE <<>>

NameGate(claim_fn, claim_ln, crit_fn, crit_ln) ==
    LET name_score == CalculateNameMatchScore(claim_fn, claim_ln, crit_fn, crit_ln)
        swapped_name_score ==
            CalculateNameMatchScore(claim_fn, claim_ln, crit_ln, crit_fn)
    IN  IF name_score >= 20 THEN <<name_score>>
        ELSE IF swapped_name_score >= 20 THEN <<swapped_name_score>>
        ELSE <<>>

(***************************************************************************)
(* ClaimMatcher._score_api_claim_candidate: <<score, used_alternate_       *)
(* benefit, override_type>>                                                *)
(***************************************************************************)
Rejected == <<0, FALSE, "">>

\* the procedure gate once date, status and name have passed
ApiProcedureGate(claim_date_obj, target_date_obj, name_score, claim_procedures_from_api, criteria) ==
    LET eob == criteria.procedures
        payment_proc_codes == [k \in DOMAIN eob |-> eob[k].proc_code]
        api_claim_proc_codes ==
            [k \in DOMAIN claim_procedures_from_api |->
                NormalizeProcedureCode(claim_procedures_from_api[k].CodeSent)]
        procs_for_fees ==
            [k \in DOMAIN claim_procedures_from_api |->
                [fee_billed |-> claim_procedures_from_api[k].FeeBilled]]
    IN  IF eob # <<>> /\ claim_procedures_from_api # <<>>
        THEN IF Above49(MatchProcedureCodes(payment_proc_codes, api_claim_proc_codes))
             THEN <<70 + name_score, FALSE, "">>
             ELSE IF HasStrongNonProcedureMatchWithFees(claim_date_obj,
                         target_date_obj, name_score, procs_for_fees, eob)
                  THEN <<70 + name_score, TRUE, "fee_match">>
             ELSE IF HasProcedureCountMatch(claim_date_obj, target_date_obj,
                         name_score, claim_procedures_from_api, eob)
                  THEN <<70 + name_score, TRUE, "count_match">>
             ELSE Rejected
        ELSE IF eob = <<>> /\ claim_procedures_from_api = <<>>
             THEN <<70 + name_score, FALSE, "">>
        ELSE Rejected

\* the scorer without its status gate
ScoreApiClaimCandidate_AnyStatus(api_claim_data, claim_procedures_from_api, criteria, claim_owner_patient_details) ==
    LET claim_date_obj == ParseDate(api_claim_data.DateService)
        target_date_obj == ParseDate(criteria.date_of_service)
        gate == NameGate(claim_owner_patient_details.FName,
                         claim_owner_patient_details.LName,
                         criteria.patient_first_name,
                         criteria.patient_last_name)
    IN  IF claim_date_obj = <<>> \/ target_date_obj = <<>> THEN Rejected
        ELSE IF claim_date_obj # target_date_obj THEN Rejected
        ELSE IF gate = <<>> THEN Rejected
        ELSE ApiProcedureGate(claim_date_obj, target_date_obj, gate[1],
                              claim_procedures_from_api, criteria)

ScoreApiClaimCandidate(api_claim_data, claim_procedures_from_api, criteria, claim_owner_patient_details) ==
    LET claim_date_obj == ParseDate(api_claim_data.DateService)
        target_date_obj == ParseDate(criteria.date_of_service)
        gate == NameGate(claim_owner_patient_details.FName,
                         claim_owner_patient_details.LName,
                         criteria.patient_first_name,
                         criteria.patient_last_name)
    IN  IF claim_date_obj = <<>> \/ target_date_obj = <<>> THEN Rejected
        ELSE IF claim_date_obj # target_date_obj THEN Rejected
        ELSE IF api_claim_data.ClaimStatus \notin {"S", "H"} THEN Rejected
        ELSE IF gate = <<>> THEN Rejected
        ELSE ApiProcedureGate(claim_date_obj, target_date_obj, gate[1],
                              claim_procedures_from_api, criteria)

(***************************************************************************)
(* The remote claim-data accessor (make_request).  A remote is a record of *)
(* response tables, one per endpoint, the set of endpoints whose request   *)
(* raises, and the current date.  A request is <<endpoint, key>>; an       *)
(* operation that issues requests yields [val, reqs, exc]: its value, the  *)
(* requests it issued in order, and whether an exception left it.          *)
(***************************************************************************)
Lookup(table, key) == IF key \in DOMAIN table THEN table[key] ELSE <<>>

Fails(remote, req) == req[1] \in remote.failing

Respond(remote, req) ==
    CASE req[1] = "patients/Simple"   -> Lookup(remote.simple, req[2])
      [] req[1] = "claims?PatNum"     -> Lookup(remote.claims_by_pat, req[2])
      [] req[1] = "claims?InsSubNum"  -> Lookup(remote.claims_by_inssub, req[2])
      [] req[1] = "claimprocs?ClaimNum" -> Lookup(remote.claimprocs, req[2])
      [] req[1] = "patients"          -> Lookup(remote.patients, req[2])
      [] req[1] = "inssubs?Subscriber" -> Lookup(remote.inssubs, req[2])
      [] req[1] = "patplans?PatNum"   -> Lookup(remote.patplans, req[2])
      [] OTHER -> <<>>

MakeRequest(remote, req) ==
    [val  |-> IF Fails(remote, req) THEN <<>> ELSE Respond(remote, req),
     reqs |-> <<req>>,
     exc  |-> Fails(remote, req)]

\* b runs after a: a's requests come first, the outcome is b's
AndThen(a, b) == [val |-> b.val, reqs |-> a.reqs \o b.reqs, exc |-> b.exc]

IsPrefix(prefix, s) ==
    Len(prefix) <= Len(s) /\ SubSeq(s, 1, Len(prefix)) = prefix

IsBlank(s) == Strip(s) = <<>>

(***************************************************************************)
(* ClaimMatcher._check_secondary_insurance                                 *)
(***************************************************************************)
CheckSecondaryInsurance(remote, claim) ==
    LET has_secondary_plan_initial == claim.InsSubNum2 > 0 \/ claim.PlanNum2 > 0
        pat_plans == MakeRequest(remote, <<"patplans?PatNum", claim.PatNum>>)
    IN  IF has_secondary_plan_initial /\ claim.PatNum # 0
        THEN [val  |-> IF pat_plans.exc THEN has_secondary_plan_initial
                       ELSE Len(pat_plans.val) > 1,
              reqs |-> pat_plans.reqs,
              exc  |-> FALSE]
        ELSE [val |-> has_secondary_plan_initial, reqs |-> <<>>, exc |-> FALSE]

(***************************************************************************)
(* ClaimMatcher._get_entity_data.  Scores of the last-name-only filter are *)
(* in thousandths.  The value is [entity, claims, inssubs]: entity and     *)
(* inssubs hold at most one record, and {} is the value with no entity.    *)
(***************************************************************************)
NoEntityData == [entity |-> <<>>, claims |-> <<>>, inssubs |-> <<>>]

LastNameParts(last_name) ==
    SelectSeq(SplitOn(last_name, NameSeps), LAMBDA part : Len(part) > 1)

\* every part of the last name is asked, whatever the parts before it
\* answered
RECURSIVE TryLastNameParts_AllParts(_, _, _)
TryLastNameParts_AllParts(remote, parts, first_name) ==
    IF parts = <<>> THEN [val |-> <<>>, reqs |-> <<>>, exc |-> FALSE]
    ELSE LET entities_from_part ==
                 MakeRequest(remote, <<"patients/Simple", <<parts[1], first_name>>>>)
             others == TryLastNameParts_AllParts(remote, Tail(parts), first_name)
         IN  IF entities_from_part.exc THEN entities_from_part
             ELSE [val  |-> IF entities_from_part.val # <<>>
                            THEN entities_from_part.val ELSE others.val,
                   reqs |-> entities_from_part.reqs \o others.reqs,
                   exc  |-> others.exc]

\* Attempt 2: each part of the last name with the first name, in order,
\* until one answers
RECURSIVE TryLastNameParts(_, _, _)
TryLastNameParts(remote, parts, first_name) ==
    IF parts = <<>> THEN [val |-> <<>>, reqs |-> <<>>, exc |-> FALSE]
    ELSE LET entities_from_part ==
                 MakeRequest(remote, <<"patients/Simple", <<parts[1], first_name>>>>)
         IN  IF entities_from_part.exc \/ entities_from_part.val # <<>>
             THEN entities_from_part
             ELSE AndThen(entities_from_part,
                          TryLastNameParts(remote, Tail(parts), first_name))

FirstNameFilterScore(entity_first_name, first_name_lower) ==
    LET distance == LevenshteinDistance(entity_first_name, first_name_lower)
        max_len == Max2(Len(entity_first_name), Len(first_name_lower))
    IN  IF entity_first_name = first_name_lower THEN 1000
        ELSE IF IsPrefix(first_name_lower, entity_first_name) THEN 900
        ELSE IF IsPrefix(entity_first_name, first_name_lower) THEN 800
        ELSE IF max_len > 0 /\ 10 * (max_len - distance) >= 6 * max_len
             THEN (700 * (max_len - distance)) \div max_len
        ELSE 0

\* Attempt 3: filter the last-name-only answer by first name
SelectBestFirstName(all_last_name_entities, first_name) ==
    LET scored == [k \in DOMAIN all_last_name_entities |->
                     [entity |-> all_last_name_entities[k],
                      score  |-> FirstNameFilterScore(
                                     Lower(all_last_name_entities[k].FName),
                                     Lower(first_name))]]
        above == SelectSeq(scored, LAMBDA m : m.score > 750)
        best_matches ==
            SortedBy(Descending([k \in DOMAIN above |-> above[k].score]), above)
    IN  IF best_matches = <<>> THEN <<>>
        ELSE IF best_matches[1].score >= 700
                /\ (Len(best_matches) = 1
                    \/ best_matches[1].score > best_matches[2].score + 100)
             THEN <<best_matches[1].entity>>
        ELSE <<>>

LastNameOnlySearch(remote, last_name, first_name) ==
    LET all_last_name_entities ==
            MakeRequest(remote, <<"patients/Simple", <<last_name, <<>>>>>>)
    IN  IF all_last_name_entities.exc THEN all_last_name_entities
        ELSE [all_last_name_entities EXCEPT
                 !.val = SelectBestFirstName(all_last_name_entities.val, first_name)]

\* Attempt 4: the last part of the last name, unless it was already tried
LastPartSearch(remote, last_name, first_name) ==
    LET original_last_name_parts == LastNameParts(last_name)
        last_name_parts == LastNameParts(last_name)
        last_part == original_last_name_parts[Len(original_last_name_parts)]
    IN  IF Len(original_last_name_parts) > 1
           /\ Lower(last_part) \notin
                  {Lower(last_name_parts[k]) : k \in DOMAIN last_name_parts}
        THEN MakeRequest(remote, <<"patients/Simple", <<last_part, first_name>>>>)
        ELSE [val |-> <<>>, reqs |-> <<>>, exc |-> FALSE]

\* next((sub for sub in inssubs if ...), inssubs[0]); exc is the ValueError
\* of a DateTerm that does not parse
RECURSIVE ActiveInsSub(_, _, _)
ActiveInsSub(inssubs, k, today) ==
    IF k > Len(inssubs) THEN [val |-> <<inssubs[1]>>, exc |-> FALSE]
    ELSE IF inssubs[k].DateTerm = <<"0","0","0","1","-","0","1","-","0","1">>
         THEN [val |-> <<inssubs[k]>>, exc |-> FALSE]
    ELSE IF ParseDate(inssubs[k].DateTerm) = <<>>
         THEN [val |-> <<>>, exc |-> TRUE]
    ELSE IF DateAfter(ParseDate(inssubs[k].DateTerm), today)
         THEN [val |-> <<inssubs[k]>>, exc |-> FALSE]
    ELSE ActiveInsSub(inssubs, k + 1, today)

EntityDetails(remote, entity, is_patient) ==
    LET claims == MakeRequest(remote, <<"claims?PatNum", entity.PatNum>>)
        inssubs == MakeRequest(remote, <<"inssubs?Subscriber", entity.PatNum>>)
        active_inssub == ActiveInsSub(inssubs.val, 1, remote.today)
    IN  IF is_patient
        THEN [val  |-> IF claims.exc THEN NoEntityData
                       ELSE [entity |-> <<entity>>, claims |-> claims.val,
                             inssubs |-> <<>>],
              reqs |-> claims.reqs, exc |-> FALSE]
        ELSE [val  |-> IF inssubs.exc THEN NoEntityData
                       ELSE IF inssubs.val = <<>>
                            THEN [entity |-> <<entity>>, claims |-> <<>>,
                                  inssubs |-> <<>>]
                       ELSE IF active_inssub.exc THEN NoEntityData
                       ELSE [entity |-> <<entity>>, claims |-> <<>>,
                             inssubs |-> active_inssub.val],
              reqs |-> inssubs.reqs, exc |-> FALSE]

GetEntityData(remote, last_name, first_name, entity_type) ==
    LET is_patient == entity_type = "patient"
        attempt1 == MakeRequest(remote, <<"patients/Simple", <<last_name, first_name>>>>)
        last_name_parts == LastNameParts(last_name)
        attempt2 ==
            IF ~attempt1.exc /\ attempt1.val = <<>> /\ first_name # <<>>
               /\ Len(last_name_parts) > 1
            THEN AndThen(attempt1,
                         TryLastNameParts(remote, last_name_parts, first_name))
            ELSE attempt1
        attempt3 ==
            IF ~attempt2.exc /\ attempt2.val = <<>> /\ first_name # <<>>
            THEN AndThen(attempt2, LastNameOnlySearch(remote, last_name, first_name))
            ELSE attempt2
        attempt4 ==
            IF ~attempt3.exc /\ attempt3.val = <<>> /\ first_name # <<>>
            THEN AndThen(attempt3, LastPartSearch(remote, last_name, first_name))
            ELSE attempt3
    IN  IF IsBlank(first_name) \/ IsBlank(last_name)
        THEN [val |-> NoEntityData, reqs |-> <<>>, exc |-> FALSE]
        ELSE IF attempt4.exc \/ attempt4.val = <<>>
             THEN [val |-> NoEntityData, reqs |-> attempt4.reqs, exc |-> FALSE]
        ELSE AndThen(attempt4,
                     EntityDetails(remote, attempt4.val[1], is_patient))

(***************************************************************************)
(* Python values of the is_secondary field.  A cached record may hold a    *)
(* boolean, a string, or no such key; "absent" reads as the default False. *)
(***************************************************************************)
PyBool(b) == IF b THEN "True" ELSE "False"

Truthy(v) == v \in {"True", "'true'", "'false'"}

\* a or b
PyOr(a, b) == IF Truthy(a) THEN a ELSE b

\* claim.get(key, False)
GetOrFalse(v) == IF v = "absent" THEN "False" ELSE v

\* isinstance(v, str) and v.lower() == 'true', or the boolean itself
SecondaryForStatusGate(v) == v \in {"True", "'true'"}

(***************************************************************************)
(* ClaimMatcher.filter_cached_claims.  A missing claim_num or pat_num is   *)
(* 0, a missing string is <<>>.                                            *)
(***************************************************************************)
SetPendingSecondary(m) == [m EXCEPT !.has_pending_secondary = TRUE]

\* the matches stay in the order of their scores
PrioritizeDbMatches_ScoreOnly(sorted_potential_matches) == sorted_potential_matches

PrioritizeDbMatches(sorted_potential_matches) ==
    LET db_primary_matches ==
            SelectSeq(sorted_potential_matches, LAMBDA m : ~Truthy(m.is_secondary))
        db_secondary_matches ==
            SelectSeq(sorted_potential_matches, LAMBDA m : Truthy(m.is_secondary))
    IN  IF db_primary_matches # <<>> /\ db_secondary_matches # <<>>
        THEN [k \in DOMAIN db_primary_matches |->
                 SetPendingSecondary(db_primary_matches[k])] \o db_secondary_matches
        ELSE IF db_primary_matches # <<>> THEN db_primary_matches
        ELSE db_secondary_matches

CachedStatusPasses(claim) ==
    \/ claim.claim_status \in {"S", "H"}
    \/ claim.claim_status = "R" /\ ~SecondaryForStatusGate(claim.is_secondary)

\* "pass", or the override that let the procedure gate pass, or "skip"
CachedProcedureGate(claim_date_obj, target_date_obj, name_score, payment_proc_codes_normalized, claim, criteria) ==
    LET cached_procs_list == claim.procedures
        with_code == SelectSeq(cached_procs_list, LAMBDA q : q.proc_code # <<>>)
        db_claim_proc_codes_normalized ==
            [k \in DOMAIN with_code |-> NormalizeProcedureCode(with_code[k].proc_code)]
        above ==
            IF payment_proc_codes_normalized = <<>>
               /\ db_claim_proc_codes_normalized = <<>> THEN TRUE
            ELSE IF payment_proc_codes_normalized = <<>>
                    \/ db_claim_proc_codes_normalized = <<>> THEN FALSE
            ELSE Above49(MatchProcedureCodes(payment_proc_codes_normalized,
                                             db_claim_proc_codes_normalized))
    IN  IF above THEN "pass"
        ELSE IF HasStrongNonProcedureMatchWithFees(claim_date_obj, target_date_obj,
                    name_score, cached_procs_list, criteria.procedures)
             THEN "fee_match"
        ELSE IF HasProcedureCountMatch(claim_date_obj, target_date_obj,
                    name_score, cached_procs_list, criteria.procedures)
             THEN "count_match"
        ELSE "skip"

\* a partial subscriber match earns the full bonus
SubscriberBonusPoints_Full(claim, criteria) ==
    LET partial_score_value ==
            CalculateNameMatchScore(Strip(claim.subscriber_first_name),
                                    Strip(claim.subscriber_last_name),
                                    criteria.subscriber_first_name,
                                    criteria.subscriber_last_name)
    IN  IF IsBlank(criteria.subscriber_first_name)
           \/ IsBlank(criteria.subscriber_last_name) THEN 0
        ELSE IF IsBlank(claim.subscriber_first_name)
                \/ IsBlank(claim.subscriber_last_name) THEN 0
        ELSE IF partial_score_value >= 15 THEN 15
        ELSE 0

SubscriberBonusPoints(claim, criteria) ==
    LET sub_name_score_value ==
            CalculateNameMatchScore(Strip(claim.subscriber_first_name),
                                    Strip(claim.subscriber_last_name),
                                    criteria.subscriber_first_name,
                                    criteria.subscriber_last_name)
    IN  IF IsBlank(criteria.subscriber_first_name)
           \/ IsBlank(criteria.subscriber_last_name) THEN 0
        ELSE IF IsBlank(claim.subscriber_first_name)
                \/ IsBlank(claim.subscriber_last_name) THEN 0
        ELSE IF sub_name_score_value = 30 THEN 15
        ELSE IF sub_name_score_value >= 15 THEN 8
        ELSE 0

\* is_supplemental=claim.get('is_supplemental', False)
CachedSupplementalFlag_Dropped(claim) == FALSE

CachedSupplementalFlag(claim) == claim.is_supplemental

CachedClaimProcs(claim) ==
    LET with_code == SelectSeq(claim.procedures, LAMBDA q : q.proc_code # <<>>)
    IN  [k \in DOMAIN with_code |->
            [CodeSent  |-> NormalizeProcedureCode(with_code[k].proc_code),
             FeeBilled |-> with_code[k].fee_billed]]

\* the override was found by the fee check or the count check; the source
\* tag asks the count check again, first
DbMatchSource(gate, claim_date_obj, target_date_obj, name_score, claim, criteria) ==
    IF gate = "pass" THEN "database_strict"
    ELSE IF HasProcedureCountMatch(claim_date_obj, target_date_obj, name_score,
                                   claim.procedures, criteria.procedures)
         THEN "database_count_match"
    ELSE "database_alternate_benefit"

\* one pass of the loop over db_claims: [val, exc] with val <<>> for a
\* skipped claim and <<match>> for an accepted one
EvaluateCachedClaim(criteria, target_date_obj, criteria_name_fn_to_use, criteria_name_ln_to_use, payment_proc_codes_normalized, claim) ==
    LET claim_date_obj == ParseDate(claim.date_of_service)
        gate == NameGate(claim.patient_first_name, claim.patient_last_name,
                         criteria_name_fn_to_use, criteria_name_ln_to_use)
        procs == CachedProcedureGate(claim_date_obj, target_date_obj, gate[1],
                                     payment_proc_codes_normalized, claim, criteria)
        Skip == [val |-> <<>>, exc |-> FALSE]
    IN  IF claim.date_of_service = <<>> THEN Skip
        ELSE IF claim_date_obj = <<>> \/ claim_date_obj # target_date_obj THEN Skip
        ELSE IF ~CachedStatusPasses(claim) THEN Skip
        ELSE IF claim.patient_first_name = <<>> \/ claim.patient_last_name = <<>>
             THEN Skip
        ELSE IF gate = <<>> THEN Skip
        ELSE IF procs = "skip" THEN Skip
        ELSE IF claim.claim_num = 0 \/ claim.pat_num = 0       \* int(None)
             THEN [val |-> <<>>, exc |-> TRUE]
        ELSE [val |-> <<[
                 claim_num             |-> claim.claim_num,
                 pat_num               |-> claim.pat_num,
                 date_of_service       |-> claim.date_of_service,
                 is_secondary          |->
                     PyOr(GetOrFalse(claim.is_secondary),
                          PyOr(PyBool(claim.plan_type = "S"),
                               PyBool(claim.ClaimType = "S"))),
                 has_secondary_plan    |-> claim.has_secondary_plan,
                 has_pending_secondary |-> FALSE,
                 match_score           |->
                     <<30 + 10 + gate[1] + 30 + SubscriberBonusPoints(claim, criteria)>>,
                 match_source          |->
                     DbMatchSource(procs, claim_date_obj, target_date_obj,
                                   gate[1], claim, criteria),
                 claim_procs           |-> CachedClaimProcs(claim),
                 is_supplemental       |-> CachedSupplementalFlag(claim),
                 claim_status          |-> claim.claim_status]>>,
              exc |-> FALSE]

RECURSIVE EvaluateCachedClaims(_, _, _, _, _, _, _)
EvaluateCachedClaims(criteria, target_date_obj, fn, ln, codes, db_claims, potential_matches) ==
    IF db_claims = <<>> THEN [val |-> potential_matches, exc |-> FALSE]
    ELSE LET one == EvaluateCachedClaim(criteria, target_date_obj, fn, ln, codes,
                                        db_claims[1])
         IN  IF one.exc THEN [val |-> <<>>, exc |-> TRUE]
             ELSE EvaluateCachedClaims(criteria, target_date_obj, fn, ln, codes,
                                       Tail(db_claims), potential_matches \o one.val)

FilterCachedClaims(criteria, claims_data) ==
    LET db_claims == claims_data.claims
        target_date_obj == ParseDate(criteria.date_of_service)
        use_patient == ~IsBlank(criteria.patient_first_name)
                       /\ ~IsBlank(criteria.patient_last_name)
        use_subscriber == ~IsBlank(criteria.subscriber_first_name)
                          /\ ~IsBlank(criteria.subscriber_last_name)
        criteria_name_fn_to_use ==
            IF use_patient THEN criteria.patient_first_name
            ELSE criteria.subscriber_first_name
        criteria_name_ln_to_use ==
            IF use_patient THEN criteria.patient_last_name
            ELSE criteria.subscriber_last_name
        with_code == SelectSeq(criteria.procedures, LAMBDA q : q.proc_code # <<>>)
        payment_proc_codes_normalized ==
            [k \in DOMAIN with_code |-> NormalizeProcedureCode(with_code[k].proc_code)]
        evaluated == EvaluateCachedClaims(criteria, target_date_obj,
                         criteria_name_fn_to_use, criteria_name_ln_to_use,
                         payment_proc_codes_normalized, db_claims, <<>>)
        Nothing == [val |-> <<>>, reqs |-> <<>>, exc |-> FALSE]
    IN  IF db_claims = <<>> THEN Nothing
        ELSE IF target_date_obj = <<>> THEN Nothing
        ELSE IF ~use_patient /\ ~use_subscriber THEN Nothing
        ELSE IF evaluated.exc THEN [val |-> <<>>, reqs |-> <<>>, exc |-> TRUE]
        ELSE [val  |-> PrioritizeDbMatches(
                          SortedBy(Descending([k \in DOMAIN evaluated.val |->
                                                  evaluated.val[k].match_score[1]]),
                                   evaluated.val)),
              reqs |-> <<>>,
              exc  |-> FALSE]

(***************************************************************************)
(* ClaimMatcher.find_matching_claims: the remote two-stage search          *)
(***************************************************************************)
MIN_ACCEPTABLE_SCORE == 89

\* the quick pre-filter of both stages
PreFilterPasses(api_claim, target_date) ==
    /\ ParseDate(api_claim.DateService) # <<>>
    /\ ParseDate(api_claim.DateService) = target_date
    /\ api_claim.ClaimStatus \in {"S", "H"}

\* the claim number of an accepted candidate is not remembered
ScoreAndCollect_Forgets(remote, criteria, api_claim, owner, acc) ==
    LET claim_procs_api ==
            MakeRequest(remote, <<"claimprocs?ClaimNum", api_claim.ClaimNum>>)
        scored == ScoreApiClaimCandidate(api_claim, claim_procs_api.val, criteria, owner)
        after == [acc EXCEPT !.reqs = @ \o claim_procs_api.reqs]
    IN  IF claim_procs_api.exc THEN [after EXCEPT !.exc = TRUE]
        ELSE IF scored[1] > 0
             THEN [after EXCEPT
                      !.cands = Append(@, [score                  |-> scored[1],
                                           api_claim_raw          |-> api_claim,
                                           claim_procs_raw        |-> claim_procs_api.val,
                                           used_alternate_benefit |-> scored[2],
                                           override_type          |-> scored[3]])]
        ELSE after

\* score a claim whose owner is known and add it to the candidates; acc is
\* [cands, processed, reqs, exc]
ScoreAndCollect(remote, criteria, api_claim, owner, acc) ==
    LET claim_procs_api ==
            MakeRequest(remote, <<"claimprocs?ClaimNum", api_claim.ClaimNum>>)
        scored == ScoreApiClaimCandidate(api_claim, claim_procs_api.val, criteria, owner)
        after == [acc EXCEPT !.reqs = @ \o claim_procs_api.reqs]
    IN  IF claim_procs_api.exc THEN [after EXCEPT !.exc = TRUE]
        ELSE IF scored[1] > 0
             THEN [after EXCEPT
                      !.cands = Append(@, [score                  |-> scored[1],
                                           api_claim_raw          |-> api_claim,
                                           claim_procs_raw        |-> claim_procs_api.val,
                                           used_alternate_benefit |-> scored[2],
                                           override_type          |-> scored[3]]),
                      !.processed = @ \cup {api_claim.ClaimNum}]
        ELSE after

RECURSIVE PatientStage(_, _, _, _, _, _)
PatientStage(remote, criteria, target_date, owner, claims, acc) ==
    IF claims = <<>> \/ acc.exc THEN acc
    ELSE LET api_claim == claims[1]
             next == IF api_claim.ClaimNum = 0
                        \/ api_claim.ClaimNum \in acc.processed THEN acc
                     ELSE IF ~PreFilterPasses(api_claim, target_date) THEN acc
                     ELSE ScoreAndCollect(remote, criteria, api_claim, owner, acc)
         IN  IF next.exc = acc.exc
             THEN PatientStage(remote, criteria, target_date, owner, Tail(claims), next)
             ELSE next

\* every claim of the subscription is scored against the subscriber
RECURSIVE SubscriberStage_OfSubscriber(_, _, _, _, _)
SubscriberStage_OfSubscriber(remote, criteria, target_date, claims, acc) ==
    IF claims = <<>> \/ acc.exc THEN acc
    ELSE LET sub_claim == claims[1]
             owner_response == MakeRequest(remote, <<"patients", sub_claim.PatNum>>)
             subscriber_found ==
                 Lookup(remote.simple, <<criteria.subscriber_last_name,
                                         criteria.subscriber_first_name>>)
             sub_asked == [acc EXCEPT !.reqs = @ \o owner_response.reqs]
             sub_next == IF sub_claim.ClaimNum = 0
                            \/ sub_claim.ClaimNum \in acc.processed THEN acc
                         ELSE IF ~PreFilterPasses(sub_claim, target_date) THEN acc
                         ELSE IF sub_claim.PatNum = 0 THEN acc
                         ELSE IF owner_response.exc
                              THEN [sub_asked EXCEPT !.exc = TRUE]
                         ELSE IF owner_response.val = <<>>
                                 \/ owner_response.val[1].PatNum = 0
                                 \/ subscriber_found = <<>>
                              THEN sub_asked
                         ELSE ScoreAndCollect(remote, criteria, sub_claim,
                                              subscriber_found[1], sub_asked)
         IN  IF sub_next.exc = acc.exc
             THEN SubscriberStage_OfSubscriber(remote, criteria, target_date,
                                               Tail(claims), sub_next)
             ELSE sub_next

RECURSIVE SubscriberStage(_, _, _, _, _)
SubscriberStage(remote, criteria, target_date, claims, acc) ==
    IF claims = <<>> \/ acc.exc THEN acc
    ELSE LET api_claim == claims[1]
             owner_patient_api_response ==
                 MakeRequest(remote, <<"patients", api_claim.PatNum>>)
             asked == [acc EXCEPT !.reqs = @ \o owner_patient_api_response.reqs]
             next == IF api_claim.ClaimNum = 0
                        \/ api_claim.ClaimNum \in acc.processed THEN acc
                     ELSE IF ~PreFilterPasses(api_claim, target_date) THEN acc
                     ELSE IF api_claim.PatNum = 0 THEN acc
                     ELSE IF owner_patient_api_response.exc
                          THEN [asked EXCEPT !.exc = TRUE]
                     ELSE IF owner_patient_api_response.val = <<>>
                             \/ owner_patient_api_response.val[1].PatNum = 0
                          THEN asked
                     ELSE ScoreAndCollect(remote, criteria, api_claim,
                                          owner_patient_api_response.val[1], asked)
         IN  IF next.exc = acc.exc
             THEN SubscriberStage(remote, criteria, target_date, Tail(claims), next)
             ELSE next

ApiMatchSource(cand) ==
    IF ~cand.used_alternate_benefit THEN "api_strict_scored"
    ELSE IF cand.override_type = "count_match" THEN "api_count_match"
    ELSE "api_alternate_benefit"

ApiClaimProcs(raw_procs) ==
    [k \in DOMAIN raw_procs |->
        [CodeSent  |-> NormalizeProcedureCode(raw_procs[k].CodeSent),
         FeeBilled |-> raw_procs[k].FeeBilled]]

\* Stage 3, the loop over the sorted candidates: acc is [val, reqs, exc]
RECURSIVE BuildApiMatches(_, _, _)
BuildApiMatches(remote, sorted_candidates, acc) ==
    IF sorted_candidates = <<>> THEN acc
    ELSE LET cand == sorted_candidates[1]
             raw_claim == cand.api_claim_raw
             has_secondary_plan_flag == CheckSecondaryInsurance(remote, raw_claim)
             match_obj ==
                 [claim_num             |-> raw_claim.ClaimNum,
                  pat_num               |-> raw_claim.PatNum,
                  date_of_service       |-> raw_claim.DateService,
                  is_secondary          |-> PyBool(raw_claim.ClaimType = "S"),
                  has_secondary_plan    |-> has_secondary_plan_flag.val,
                  has_pending_secondary |-> FALSE,
                  match_score           |-> <<cand.score>>,
                  match_source          |-> ApiMatchSource(cand),
                  claim_procs           |-> ApiClaimProcs(cand.claim_procs_raw),
                  is_supplemental       |-> FALSE,
                  claim_status          |-> raw_claim.ClaimStatus]
             next == [val  |-> Append(acc.val, match_obj),
                      reqs |-> acc.reqs \o has_secondary_plan_flag.reqs,
                      exc  |-> FALSE]
         IN  IF Len(next.val) = Len(acc.val) + 1
             THEN BuildApiMatches(remote, Tail(sorted_candidates), next)
             ELSE next

PrioritizeApiMatches(matches) ==
    LET final_match_objects_primary ==
            SelectSeq(matches, LAMBDA m : m.is_secondary = "False")
        final_match_objects_secondary ==
            SelectSeq(matches, LAMBDA m : m.is_secondary = "True")
    IN  IF final_match_objects_primary # <<>> /\ final_match_objects_secondary # <<>>
        THEN [k \in DOMAIN final_match_objects_primary |->
                 SetPendingSecondary(final_match_objects_primary[k])]
             \o final_match_objects_secondary
        ELSE IF final_match_objects_primary # <<>> THEN final_match_objects_primary
        ELSE final_match_objects_secondary

FindMatchingClaims(remote, criteria) ==
    LET target_date == ParseDate(criteria.date_of_service)
        Start == [cands |-> <<>>, processed |-> {}, reqs |-> <<>>, exc |-> FALSE]
        \* STAGE 1
        patient_data ==
            IF ~IsBlank(criteria.patient_first_name)
               /\ ~IsBlank(criteria.patient_last_name)
            THEN GetEntityData(remote, criteria.patient_last_name,
                               criteria.patient_first_name, "patient")
            ELSE [val |-> NoEntityData, reqs |-> <<>>, exc |-> FALSE]
        stage1 ==
            IF patient_data.val.entity # <<>> /\ patient_data.val.claims # <<>>
            THEN PatientStage(remote, criteria, target_date,
                              patient_data.val.entity[1], patient_data.val.claims,
                              [Start EXCEPT !.reqs = patient_data.reqs])
            ELSE [Start EXCEPT !.reqs = patient_data.reqs]
        \* STAGE 2
        subscriber_data ==
            IF ~IsBlank(criteria.subscriber_first_name)
               /\ ~IsBlank(criteria.subscriber_last_name)
            THEN GetEntityData(remote, criteria.subscriber_last_name,
                               criteria.subscriber_first_name, "subscriber")
            ELSE [val |-> NoEntityData, reqs |-> <<>>, exc |-> FALSE]
        looked == [stage1 EXCEPT !.reqs = @ \o subscriber_data.reqs]
        claims_for_sub ==
            MakeRequest(remote, <<"claims?InsSubNum",
                                  subscriber_data.val.inssubs[1].InsSubNum>>)
        fetched == [looked EXCEPT !.reqs = @ \o claims_for_sub.reqs]
        stage2 ==
            IF stage1.exc THEN stage1
            ELSE IF subscriber_data.val.entity # <<>>
                    /\ subscriber_data.val.inssubs # <<>>
                 THEN IF claims_for_sub.exc THEN [fetched EXCEPT !.exc = TRUE]
                      ELSE SubscriberStage(remote, criteria, target_date,
                                           claims_for_sub.val, fetched)
            ELSE looked
        \* STAGE 3
        high_confidence_candidates ==
            SelectSeq(stage2.cands, LAMBDA c : c.score >= MIN_ACCEPTABLE_SCORE)
        sorted_candidates ==
            SortedBy(Descending([k \in DOMAIN high_confidence_candidates |->
                                    high_confidence_candidates[k].score]),
                     high_confidence_candidates)
        built == BuildApiMatches(remote, sorted_candidates,
                                 [val |-> <<>>, reqs |-> stage2.reqs, exc |-> FALSE])
    IN  IF target_date = <<>> THEN [val |-> <<>>, reqs |-> <<>>, exc |-> FALSE]
        ELSE IF stage2.exc THEN [val |-> <<>>, reqs |-> stage2.reqs, exc |-> TRUE]
        ELSE [built EXCEPT !.val = PrioritizeApiMatches(built.val)]

(***************************************************************************)
(* ClaimMatcher.find_matching_claims_api_fallback: the supplemental        *)
(* fallback.  Everything after the skip test runs inside one try block     *)
(* whose handler returns the empty list.                                   *)
(***************************************************************************)
\* the claim-procedure lines of one claim that overlap the EOB codes
MatchedApiProcedures_AllLines(api_claim_procs_full, eob_proc_codes_normalized) ==
    [k \in DOMAIN api_claim_procs_full |->
        [CodeSent  |-> api_claim_procs_full[k].CodeSent,
         FeeBilled |-> api_claim_procs_full[k].FeeBilled]]

MatchedApiProcedures(api_claim_procs_full, eob_proc_codes_normalized) ==
    LET overlapping ==
            SelectSeq(api_claim_procs_full,
                      LAMBDA q : /\ NormalizeProcedureCode(q.CodeSent) # <<>>
                                 /\ NormalizeProcedureCode(q.CodeSent)
                                        \in eob_proc_codes_normalized)
    IN  [k \in DOMAIN overlapping |->
            [CodeSent  |-> overlapping[k].CodeSent,
             FeeBilled |-> overlapping[k].FeeBilled]]

\* the loop over the Received or Sent claims: acc is [val, reqs, exc]
RECURSIVE SupplementalLoop(_, _, _, _, _, _)
SupplementalLoop(remote, pat_num, target_date_obj, eob_proc_codes_normalized, claims, acc) ==
    IF claims = <<>> \/ acc.exc THEN acc
    ELSE LET api_claim == claims[1]
             api_claim_date_obj == ParseDate(api_claim.DateService)
             api_claim_procs_full ==
                 MakeRequest(remote, <<"claimprocs?ClaimNum", api_claim.ClaimNum>>)
             asked == [acc EXCEPT !.reqs = @ \o api_claim_procs_full.reqs]
             matched == MatchedApiProcedures(api_claim_procs_full.val,
                                             eob_proc_codes_normalized)
             match_obj ==
                 [claim_num             |-> api_claim.ClaimNum,
                  pat_num               |-> pat_num,
                  date_of_service       |-> api_claim.DateService,
                  is_secondary          |-> PyBool(api_claim.ClaimType = "S"),
                  has_secondary_plan    |->
                      api_claim.InsSubNum2 > 0 \/ api_claim.PlanNum2 > 0,
                  has_pending_secondary |-> FALSE,
                  match_score           |-> <<>>,
                  match_source          |-> "api_supplemental",
                  claim_procs           |-> matched,
                  is_supplemental       |-> TRUE,
                  claim_status          |-> api_claim.ClaimStatus]
             next == IF api_claim_date_obj = <<>>
                        \/ api_claim_date_obj # target_date_obj THEN acc
                     ELSE IF api_claim_procs_full.exc
                          THEN [asked EXCEPT !.exc = TRUE]
                     ELSE IF api_claim_procs_full.val = <<>> THEN asked
                     ELSE IF matched # <<>>
                          THEN [asked EXCEPT !.val = Append(@, match_obj)]
                     ELSE asked
         IN  IF next.exc = acc.exc
             THEN SupplementalLoop(remote, pat_num, target_date_obj,
                                   eob_proc_codes_normalized, Tail(claims), next)
             ELSE next

FindMatchingClaimsApiFallback(remote, criteria, skip_api_fallback) ==
    LET words == SplitOn(criteria.patient_first_name, Whitespace)
        api_fallback_patient_first_name ==
            IF criteria.patient_first_name = <<>> THEN <<>> ELSE words[1]
        api_fallback_patient_last_name == criteria.patient_last_name
        patient_api_data ==
            GetEntityData(remote, api_fallback_patient_last_name,
                          api_fallback_patient_first_name, "patient")
        received_or_sent_api_claims ==
            SelectSeq(patient_api_data.val.claims,
                      LAMBDA c : c.ClaimStatus \in {"R", "S"})
        target_date_obj == ParseDate(criteria.date_of_service)
        with_code == SelectSeq(criteria.procedures, LAMBDA q : q.proc_code # <<>>)
        eob_proc_codes_normalized ==
            {NormalizeProcedureCode(with_code[k].proc_code) : k \in DOMAIN with_code}
        looped == SupplementalLoop(remote, patient_api_data.val.entity[1].PatNum,
                      target_date_obj, eob_proc_codes_normalized,
                      received_or_sent_api_claims,
                      [val |-> <<>>, reqs |-> patient_api_data.reqs, exc |-> FALSE])
        Nothing(reqs) == [val |-> <<>>, reqs |-> reqs, exc |-> FALSE]
    IN  IF skip_api_fallback THEN Nothing(<<>>)
        \* split()[0] of a name that is all whitespace: IndexError, handled
        ELSE IF criteria.patient_first_name # <<>> /\ words = <<>> THEN Nothing(<<>>)
        ELSE IF api_fallback_patient_first_name = <<>>
                \/ api_fallback_patient_last_name = <<>> THEN Nothing(<<>>)
        ELSE IF patient_api_data.val.entity = <<>>
                \/ patient_api_data.val.claims = <<>>
             THEN Nothing(patient_api_data.reqs)
        ELSE IF received_or_sent_api_claims = <<>> THEN Nothing(patient_api_data.reqs)
        ELSE IF target_date_obj = <<>> THEN Nothing(patient_api_data.reqs)
        ELSE IF looped.exc THEN Nothing(looped.reqs)
        ELSE looped

(***************************************************************************)
(* Procedure codes of the model: every string over CodeChars up to         *)
(* MaxCodeLen characters                                                   *)
(***************************************************************************)
CodeChars == {"D", "0", "1"}

CodesOfLen(n) == [1..n -> CodeChars]

AllCodes == UNION {CodesOfLen(n) : n \in 0..MaxCodeLen}

(***************************************************************************)
(* The values the operations are called with                               *)
(***************************************************************************)
William == <<"W", "i", "l", "l", "i", "a", "m">>

Bill == <<"B", "i", "l", "l">>

Smith == <<"S", "m", "i", "t", "h">>

ServiceDate == <<"2", "0", "2", "4", "-", "0", "3", "-", "0", "5">>

\* not in the %Y-%m-%d format
SlashDate == <<"0", "3", "/", "0", "5", "/", "2", "0", "2", "4">>

NeverTerminated == <<"0", "0", "0", "1", "-", "0", "1", "-", "0", "1">>

D0120 == <<"D", "0", "1", "2", "0">>

D1110 == <<"D", "1", "1", "1", "0">>

Bare0120 == <<"0", "1", "2", "0">>

GoodCriteria ==
    [date_of_service       |-> ServiceDate,
     patient_first_name    |-> William,
     patient_last_name     |-> Smith,
     subscriber_first_name |-> Bill,
     subscriber_last_name  |-> Smith,
     procedures            |-> <<[proc_code |-> D0120, submitted_amt |-> 5000,
                                  amount_paid |-> 4000]>>]

BadDateCriteria == [GoodCriteria EXCEPT !.date_of_service = SlashDate]

NoNamesCriteria ==
    [GoodCriteria EXCEPT !.patient_first_name = <<>>, !.patient_last_name = <<>>,
                         !.subscriber_first_name = <<>>, !.subscriber_last_name = <<>>]

NoPatientCriteria ==
    [GoodCriteria EXCEPT !.patient_first_name = <<>>, !.patient_last_name = <<>>]

SwappedCriteria ==
    [GoodCriteria EXCEPT !.patient_first_name = Smith, !.patient_last_name = William,
                         !.subscriber_first_name = <<>>, !.subscriber_last_name = <<>>]

OtherCodeCriteria ==
    [GoodCriteria EXCEPT !.procedures = <<[proc_code |-> D1110, submitted_amt |-> 5000,
                                           amount_paid |-> 4000]>>]

\* a first name of two words
TwoWordCriteria ==
    [GoodCriteria EXCEPT !.patient_first_name = William \o <<" ">> \o Bill]

CriteriaSet ==
    {GoodCriteria, BadDateCriteria, NoNamesCriteria, NoPatientCriteria,
     SwappedCriteria, OtherCodeCriteria, TwoWordCriteria}

CachedPrimary ==
    [claim_num |-> 11, pat_num |-> 1, date_of_service |-> ServiceDate,
     claim_status |-> "S", is_secondary |-> "absent", plan_type |-> "",
     ClaimType |-> "P", patient_first_name |-> Bill, patient_last_name |-> Smith,
     subscriber_first_name |-> Bill, subscriber_last_name |-> Smith,
     procedures |-> <<[proc_code |-> Bare0120, fee_billed |-> 5000]>>,
     is_supplemental |-> FALSE, has_secondary_plan |-> TRUE]

CachedSecondary ==
    [CachedPrimary EXCEPT !.claim_num = 12, !.is_secondary = "True",
                          !.ClaimType = "S", !.patient_first_name = William,
                          !.procedures = <<[proc_code |-> D0120, fee_billed |-> 5000]>>]

CachedBadDate == [CachedPrimary EXCEPT !.claim_num = 13, !.date_of_service = SlashDate]

CachedNoDate == [CachedPrimary EXCEPT !.claim_num = 14, !.date_of_service = <<>>]

CachedNoName == [CachedPrimary EXCEPT !.claim_num = 15, !.patient_first_name = <<>>]

\* a Received claim whose is_secondary is the string 'false' and that the
\* cache marks supplemental
CachedReceived ==
    [CachedPrimary EXCEPT !.claim_num = 16, !.claim_status = "R",
                          !.is_secondary = "'false'", !.is_supplemental = TRUE,
                          !.patient_first_name = William]

CachedNoClaimNum == [CachedPrimary EXCEPT !.claim_num = 0]

CachedClaims ==
    <<CachedSecondary, CachedPrimary, CachedBadDate, CachedNoDate, CachedNoName,
      CachedReceived, CachedNoClaimNum>>

\* the sequences that keep at most MaxCached of the records of CachedClaims,
\* in their order
Pick(s, keep) == LET F[k \in 0..Len(s)] ==
                         IF k = 0 THEN <<>>
                         ELSE IF k \in keep THEN Append(F[k - 1], s[k])
                         ELSE F[k - 1]
                 IN  F[Len(s)]

CacheSet ==
    {[claims |-> Pick(CachedClaims, keep)] :
        keep \in {K \in SUBSET DOMAIN CachedClaims : Cardinality(K) <= MaxCached}}

\* claims_data is None, or a cache
ClaimsDataSet == {<<>>} \cup {<<cache>> : cache \in CacheSet}

PatientWilliam == [PatNum |-> 1, FName |-> William, LName |-> Smith]

SubscriberBill == [PatNum |-> 2, FName |-> Bill, LName |-> Smith]

ApiPrimary ==
    [ClaimNum |-> 21, PatNum |-> 1, DateService |-> ServiceDate, ClaimStatus |-> "S",
     ClaimType |-> "P", InsSubNum2 |-> 4, PlanNum2 |-> 0]

ApiSecondary == [ApiPrimary EXCEPT !.ClaimNum = 22, !.ClaimType = "S"]

ApiReceived ==
    [ApiPrimary EXCEPT !.ClaimNum = 23, !.ClaimStatus = "R", !.InsSubNum2 = 0]

ApiBadDate == [ApiPrimary EXCEPT !.ClaimNum = 24, !.DateService = SlashDate]

ApiOfSubscriber == [ApiPrimary EXCEPT !.ClaimNum = 25, !.InsSubNum2 = 0]

ApiHeld == [ApiPrimary EXCEPT !.ClaimNum = 26, !.ClaimStatus = "H", !.InsSubNum2 = 0]

RemoteWithClaims ==
    [simple           |-> (<<Smith, William>> :> <<PatientWilliam>>)
                          @@ (<<Smith, Bill>> :> <<SubscriberBill>>),
     claims_by_pat    |-> (1 :> <<ApiSecondary, ApiPrimary, ApiReceived, ApiBadDate,
                                  ApiHeld>>),
     claims_by_inssub |-> (5 :> <<ApiPrimary, ApiOfSubscriber>>),
     claimprocs       |-> (21 :> <<[CodeSent |-> Bare0120, FeeBilled |-> 5000]>>)
                          @@ (22 :> <<[CodeSent |-> D0120, FeeBilled |-> 5000]>>)
                          @@ (23 :> <<[CodeSent |-> Bare0120, FeeBilled |-> 5000]>>)
                          @@ (24 :> <<[CodeSent |-> D0120, FeeBilled |-> 5000]>>)
                          @@ (25 :> <<[CodeSent |-> D0120, FeeBilled |-> 5000]>>)
                          @@ (26 :> <<[CodeSent |-> D0120, FeeBilled |-> 5000]>>),
     patients         |-> (1 :> <<PatientWilliam>>),
     inssubs          |-> (2 :> <<[InsSubNum |-> 5, DateTerm |-> NeverTerminated]>>),
     patplans         |-> (1 :> <<101, 102>>),
     failing          |-> {},
     today            |-> <<2024, 6, 1>>]

\* the subscriber's first plan ended on 2024-04-01, the second never ends
ApiOfLapsedPlan == [ApiPrimary EXCEPT !.ClaimNum = 27, !.InsSubNum2 = 0]

LapsedPlanDate == <<"2", "0", "2", "4", "-", "0", "4", "-", "0", "1">>

RemoteWithLapsedPlan ==
    [RemoteWithClaims EXCEPT
        !.claims_by_inssub = @ @@ (6 :> <<ApiOfLapsedPlan>>),
        !.claimprocs = @ @@ (27 :> <<[CodeSent |-> D0120, FeeBilled |-> 5000]>>),
        !.inssubs = (2 :> <<[InsSubNum |-> 6, DateTerm |-> LapsedPlanDate],
                            [InsSubNum |-> 5, DateTerm |-> NeverTerminated]>>)]

\* the days on which a call is made: before and after the first plan ended
Days == {<<2024, 3, 10>>, <<2024, 6, 1>>}

RemoteWithNothing ==
    [simple |-> <<>>, claims_by_pat |-> <<>>, claims_by_inssub |-> <<>>,
     claimprocs |-> <<>>, patients |-> <<>>, inssubs |-> <<>>, patplans |-> <<>>,
     failing |-> {}, today |-> <<2024, 6, 1>>]

Endpoints ==
    {"patients/Simple", "claims?PatNum", "claims?InsSubNum", "claimprocs?ClaimNum",
     "patients", "inssubs?Subscriber", "patplans?PatNum"}

\* no endpoint fails, or one does
FailingSets == {{}} \cup {{e} : e \in Endpoints}

RemoteSet ==
    {[remote EXCEPT !.failing = f] :
        remote \in {RemoteWithClaims, RemoteWithNothing}, f \in FailingSets}
    \cup {[RemoteWithLapsedPlan EXCEPT !.today = day] : day \in Days}

(***************************************************************************)
(* The state: the operation in progress, its arguments, what it returned,  *)
(* whether it raised and the requests it sent to the remote accessor.  pc  *)
(* is the place of OpenDentalAPI.find_matching_claims in its body and      *)
(* db_matches its local variable.                                          *)
(***************************************************************************)
Idle ==
    /\ op = "idle" /\ args = <<>> /\ ret = <<>> /\ raised = FALSE
    /\ requests = <<>> /\ pc = "idle" /\ db_matches = <<>>

\* the call has returned or raised; the next call starts from Idle
Return ==
    /\ pc = "done"
    /\ op' = "idle" /\ args' = <<>> /\ ret' = <<>> /\ raised' = FALSE
    /\ requests' = <<>> /\ pc' = "idle" /\ db_matches' = <<>>

Arguments(criteria, claims_data, skip_api_fallback, remote) ==
    [criteria |-> criteria, claims_data |-> claims_data,
     skip_api_fallback |-> skip_api_fallback, remote |-> remote]

\* an operation called on its own: it runs to its end in one step
\* the operation ends with what was returned before it
Completes_ReturnsEarlier(name, arguments, result) ==
    /\ op' = name
    /\ args' = arguments
    /\ raised' = result.exc
    /\ requests' = result.reqs
    /\ pc' = "done"
    /\ UNCHANGED <<ret, db_matches>>

Completes(name, arguments, result) ==
    /\ op' = name
    /\ args' = arguments
    /\ ret' = result.val
    /\ raised' = result.exc
    /\ requests' = result.reqs
    /\ pc' = "done"
    /\ UNCHANGED db_matches

NormalizeReturns(code, result) ==
    /\ pc = "idle"
    /\ Completes("normalize_procedure_code", <<code>>,
                 [val |-> result, reqs |-> <<>>, exc |-> FALSE])

CallNormalize ==
    \E code \in AllCodes : NormalizeReturns(code, NormalizeProcedureCode(code))

FilterCachedClaimsReturns(criteria, cache, result) ==
    /\ pc = "idle"
    /\ Completes("filter_cached_claims",
                 Arguments(criteria, <<cache>>, FALSE, <<>>), result)

CallFilterCachedClaims ==
    \E criteria \in CriteriaSet, cache \in CacheSet :
        FilterCachedClaimsReturns(criteria, cache,
                                  FilterCachedClaims(criteria, cache))

FindMatchingClaimsReturns(criteria, remote, result) ==
    /\ pc = "idle"
    /\ Completes("find_matching_claims",
                 Arguments(criteria, <<>>, FALSE, <<remote>>), result)

CallFindMatchingClaims ==
    \E criteria \in CriteriaSet, remote \in RemoteSet :
        FindMatchingClaimsReturns(criteria, remote,
                                  FindMatchingClaims(remote, criteria))

ApiFallbackReturns(criteria, remote, skip, result) ==
    /\ pc = "idle"
    /\ Completes("find_matching_claims_api_fallback",
                 Arguments(criteria, <<>>, skip, <<remote>>), result)

CallApiFallback ==
    \E criteria \in CriteriaSet, remote \in RemoteSet, skip \in BOOLEAN :
        ApiFallbackReturns(criteria, remote, skip,
                           FindMatchingClaimsApiFallback(remote, criteria, skip))

(***************************************************************************)
(* The name functions called on their own.  First names come in pairs of   *)
(* one nickname group, or of a group and the next one of the table.        *)
(***************************************************************************)
NextGroup(g) == IF g = Len(NICKNAME_GROUPS) THEN 1 ELSE g + 1

NamePairs ==
    UNION {NICKNAME_GROUPS[g] \X (NICKNAME_GROUPS[g] \cup NICKNAME_GROUPS[NextGroup(g)]) :
               g \in DOMAIN NICKNAME_GROUPS}

NamesRelatedReturns(name1, name2, result) ==
    /\ pc = "idle"
    /\ Completes("are_names_related", <<name1, name2>>,
                 [val |-> <<result>>, reqs |-> <<>>, exc |-> FALSE])

\* names as they are written on documents: capitalised, padded, blank
WrittenNames == {<<>>, <<" ">>, William, Bill, <<" ">> \o Bill \o <<" ">>, Smith}

CallAreNamesRelated ==
    \E pair \in NamePairs \cup (WrittenNames \X WrittenNames) :
        NamesRelatedReturns(pair[1], pair[2], AreNamesRelated(pair[1], pair[2]))

NameVariationsReturns(name, result) ==
    /\ pc = "idle"
    /\ Completes("get_name_variations", <<name>>,
                 [val |-> <<result>>, reqs |-> <<>>, exc |-> FALSE])

\* every name of the table, and names written on documents
CallGetNameVariations ==
    \E name \in UNION Range(NICKNAME_GROUPS) \cup WrittenNames :
        NameVariationsReturns(name, GetNameVariations(name))

NameMatchScoreReturns(claim_fn, claim_ln, crit_fn, crit_ln, result) ==
    /\ pc = "idle"
    /\ Completes("_calculate_name_match_score_with_nicknames",
                 <<claim_fn, claim_ln, crit_fn, crit_ln>>,
                 [val |-> <<result>>, reqs |-> <<>>, exc |-> FALSE])

CallNameMatchScore ==
    \E pair \in NamePairs :
        NameMatchScoreReturns(pair[2], Smith, pair[1], Smith,
            CalculateNameMatchScore(pair[2], Smith, pair[1], Smith))

\* the owners of a scored claim: Smiths whose first name is of one of the
\* first two nickname groups, in lower case or capitalised
OwnerSet ==
    {[PatNum |-> 1, FName |-> fn, LName |-> Smith] :
        fn \in NICKNAME_GROUPS[1] \cup NICKNAME_GROUPS[2] \cup {William, Bill}}

ClaimProcsSet ==
    {<<[CodeSent |-> code, FeeBilled |-> 5000]>> : code \in {D0120, D1110}}
        \cup {<<[CodeSent |-> D0120, FeeBilled |-> 5000],
                [CodeSent |-> D1110, FeeBilled |-> 7000]>>}

ScoreCandidateReturns(api_claim, procs, criteria, owner, result) ==
    /\ pc = "idle"
    /\ Completes("_score_api_claim_candidate",
                 [api_claim |-> api_claim, procs |-> procs,
                  criteria |-> criteria, owner |-> owner],
                 [val |-> result, reqs |-> <<>>, exc |-> FALSE])

CallScoreCandidate ==
    \E api_claim \in {ApiPrimary, ApiReceived, ApiBadDate},
       procs \in ClaimProcsSet,
       criteria \in {GoodCriteria, OtherCodeCriteria},
       owner \in OwnerSet :
        ScoreCandidateReturns(api_claim, procs, criteria, owner,
            ScoreApiClaimCandidate(api_claim, procs, criteria, owner))

(***************************************************************************)
(* OpenDentalAPI.find_matching_claims, the orchestrator, one block of its  *)
(* body at a time                                                          *)
(***************************************************************************)
OrchName == "OpenDentalAPI.find_matching_claims"

\* the call: `if claims_data:`
OrchCall ==
    /\ pc = "idle"
    /\ \E criteria \in CriteriaSet, claims_data \in ClaimsDataSet, skip \in BOOLEAN :
        /\ op' = OrchName
        /\ args' = Arguments(criteria, claims_data, skip, <<>>)
        /\ pc' = IF claims_data # <<>> THEN "db_search" ELSE "no_cache"
    /\ UNCHANGED <<ret, raised, requests, db_matches>>

\* db_matches = filter_cached_claims(...) inside the try block; matches are
\* returned at once, an exception is caught and logged
DbSearchReturns_NoShortCircuit(criteria, cache, found) ==
    /\ pc = "db_search"
    /\ criteria = args.criteria
    /\ <<cache>> = args.claims_data
    /\ pc' = IF found.exc THEN "db_error" ELSE "db_empty"
    /\ UNCHANGED <<op, args, ret, raised, requests, db_matches>>

DbSearchReturns_Raises(criteria, cache, found) ==
    /\ pc = "db_search"
    /\ criteria = args.criteria
    /\ <<cache>> = args.claims_data
    /\ IF found.exc
       THEN /\ raised' = TRUE
            /\ pc' = "done"
            /\ UNCHANGED <<ret, db_matches>>
       ELSE IF found.val # <<>>
            THEN /\ db_matches' = found.val
                 /\ ret' = found.val
                 /\ pc' = "done"
                 /\ UNCHANGED raised
       ELSE /\ pc' = "db_empty"
            /\ UNCHANGED <<ret, raised, db_matches>>
    /\ UNCHANGED <<op, args, requests>>

\* an error of the cache search ends the call with the empty list
DbSearchReturns_ErrorEndsCall(criteria, cache, found) ==
    /\ pc = "db_search"
    /\ criteria = args.criteria
    /\ <<cache>> = args.claims_data
    /\ IF found.exc
       THEN /\ ret' = <<>>
            /\ pc' = "done"
            /\ UNCHANGED db_matches
       ELSE IF found.val # <<>>
            THEN /\ db_matches' = found.val
                 /\ ret' = found.val
                 /\ pc' = "done"
       ELSE /\ pc' = "db_empty"
            /\ UNCHANGED <<ret, db_matches>>
    /\ UNCHANGED <<op, args, raised, requests>>

DbSearchReturns(criteria, cache, found) ==
    /\ pc = "db_search"
    /\ criteria = args.criteria
    /\ <<cache>> = args.claims_data
    /\ IF found.exc
       THEN /\ pc' = "db_error"
            /\ UNCHANGED <<ret, db_matches>>
       ELSE IF found.val # <<>>
            THEN /\ db_matches' = found.val
                 /\ ret' = found.val
                 /\ pc' = "done"
       ELSE /\ pc' = "db_empty"
            /\ UNCHANGED <<ret, db_matches>>
    /\ UNCHANGED <<op, args, raised, requests>>

OrchDbSearch ==
    \E criteria \in CriteriaSet, cache \in CacheSet :
        DbSearchReturns(criteria, cache, FilterCachedClaims(criteria, cache))

\* `if skip_api_fallback: return []`, in each of the three branches that
\* found nothing in the cache
OrchSkipCheck ==
    /\ pc \in {"db_empty", "db_error", "no_cache"}
    /\ IF args.skip_api_fallback
       THEN /\ ret' = <<>>
            /\ pc' = "done"
       ELSE /\ pc' = "api_fallback"
            /\ UNCHANGED ret
    /\ UNCHANGED <<op, args, raised, requests, db_matches>>

\* return find_matching_claims_api_fallback(...); an exception is raised
\* again.  The remote accessor answers as one of RemoteSet.
OrchFallbackReturns(remote, criteria, skip, found) ==
    /\ pc = "api_fallback"
    /\ criteria = args.criteria
    /\ skip = args.skip_api_fallback
    /\ args' = [args EXCEPT !.remote = <<remote>>]
    /\ ret' = found.val
    /\ raised' = found.exc
    /\ requests' = found.reqs
    /\ pc' = "done"
    /\ UNCHANGED <<op, db_matches>>

OrchApiFallback ==
    \E remote \in RemoteSet, criteria \in CriteriaSet, skip \in BOOLEAN :
        OrchFallbackReturns(remote, criteria, skip,
            FindMatchingClaimsApiFallback(remote, criteria, skip))

(***************************************************************************)
(* Specifications                                                          *)
(***************************************************************************)
Init == Idle

Next ==
    \/ CallFilterCachedClaims
    \/ CallFindMatchingClaims
    \/ CallApiFallback
    \/ OrchCall
    \/ OrchDbSearch
    \/ OrchSkipCheck
    \/ OrchApiFallback
    \/ Return

Spec == Init /\ [][Next]_vars

\* the procedure-code functions on their own
\* the longest list of codes handed to _match_procedure_codes
MaxCodes == 3

PaddedD0120 == <<"D", "0", "0", "1", "2", "0">>

\* a code, the same code without its letter and with a zero too many,
\* and another code
MatchCodes == {D0120, Bare0120, PaddedD0120, D1110}

CodeLists == UNION {[1..n -> MatchCodes] : n \in 0..MaxCodes}

MatchCodesReturns(payment_codes, db_codes, result) ==
    /\ pc = "idle"
    /\ Completes("_match_procedure_codes",
                 [payment_codes |-> payment_codes, db_codes |-> db_codes],
                 [val |-> result, reqs |-> <<>>, exc |-> FALSE])

CallMatchProcedureCodes ==
    \E payment_codes \in CodeLists, db_codes \in CodeLists :
        MatchCodesReturns(payment_codes, db_codes,
            MatchProcedureCodes(payment_codes, db_codes))

InitCodes == Idle

NextCodes == CallNormalize \/ CallMatchProcedureCodes \/ Return

SpecCodes == InitCodes /\ [][NextCodes]_vars

(***************************************************************************)
(* Properties of the orchestrator                                          *)
(***************************************************************************)
Finished(name) == op = name /\ pc = "done"

\* the orchestrator has returned after asking the remote accessor
OrchAskedRemote == Finished(OrchName) /\ args.remote # <<>>

\* what the cache path gives the orchestrator: its matches, or nothing when
\* there is no cache or the search failed
CachePathResult ==
    IF args.claims_data = <<>> THEN <<>>
    ELSE LET found == FilterCachedClaims(args.criteria, args.claims_data[1])
         IN  IF found.exc THEN <<>> ELSE found.val

\* C1: after a cache miss with the fallback enabled the orchestrator returns
\* the non-empty result of the remote two-stage search; the supplemental
\* fallback answers only when the two-stage search found nothing.
C1_TwoStageBeforeFallback ==
    OrchAskedRemote =>
        LET two_stage == FindMatchingClaims(args.remote[1], args.criteria)
        IN  (~two_stage.exc /\ two_stage.val # <<>>) => ret = two_stage.val

\* C2: when the cache path has matches the orchestrator returns exactly
\* that list and sends no request to the remote accessor during the call.
C2_CacheShortCircuit ==
    (op = OrchName /\ CachePathResult # <<>>) =>
        /\ requests = <<>>
        /\ args.remote = <<>>
        /\ pc = "done" => (ret = CachePathResult /\ ~raised)

C2_Witness ==
    /\ Finished(OrchName)
    /\ db_matches # <<>>
    /\ ret = db_matches
    /\ requests = <<>>

\* C3: with skip_api_fallback set no request is sent, by the orchestrator
\* or by the fallback, and the orchestrator returns the cache path's result:
\* the empty list without a cache, without a match or after a failed search.
C3_SkipNeverAsks ==
    /\ (op = OrchName /\ args.skip_api_fallback) =>
           /\ requests = <<>>
           /\ args.remote = <<>>
           /\ ~raised
           /\ pc = "done" => ret = CachePathResult
    /\ (Finished("find_matching_claims_api_fallback") /\ args.skip_api_fallback) =>
           (requests = <<>> /\ ret = <<>> /\ ~raised)

\* the cached search failed and the orchestrator returned the empty list
C3_Witness ==
    /\ Finished(OrchName)
    /\ args.skip_api_fallback
    /\ args.claims_data # <<>>
    /\ FilterCachedClaims(args.criteria, args.claims_data[1]).exc
    /\ ret = <<>>
    /\ ~raised

(***************************************************************************)
(* Properties of the returned matches                                      *)
(***************************************************************************)
CachePath == "filter_cached_claims"

TwoStage == "find_matching_claims"

Fallback == "find_matching_claims_api_fallback"

\* the call in progress answered from the cache, or from the fallback
FromCache ==
    Finished(CachePath) \/ (Finished(OrchName) /\ args.remote = <<>>)

FromFallback == Finished(Fallback) \/ OrchAskedRemote

Scored(m) == m.match_score # <<>> /\ m.match_score[1] # 0

\* the cached record a cache-path match was built from
CachedRecordOf(m) ==
    CHOOSE c \in Range(args.claims_data[1].claims) : c.claim_num = m.claim_num

FallbackMatchesUnscored ==
    FromFallback =>
        \A k \in DOMAIN ret :
            /\ ret[k].is_supplemental
            /\ ret[k].match_score = <<>>
            /\ ret[k].match_source = "api_supplemental"

SecondaryValue(v) == SecondaryForStatusGate(v)

\* C5: in a result of the cache path or of the two-stage search a match has
\* has_pending_secondary exactly when it is not secondary and the list holds
\* a secondary match; a secondary match never has it.
C5_PendingIffSecondary ==
    (Finished(CachePath) \/ Finished(TwoStage)) =>
        \A k \in DOMAIN ret :
            ret[k].has_pending_secondary <=>
                /\ ~SecondaryValue(ret[k].is_secondary)
                /\ \E j \in DOMAIN ret : SecondaryValue(ret[j].is_secondary)

\* C6: every procedure code in the claim_procs of a returned match is its
\* own normalize_procedure_code image, on all paths.
C6_CodesCanonical ==
    pc = "done" /\ op \in {CachePath, TwoStage, Fallback, OrchName} =>
        \A k \in DOMAIN ret :
            \A q \in DOMAIN ret[k].claim_procs :
                NormalizeProcedureCode(ret[k].claim_procs[q].CodeSent)
                    = ret[k].claim_procs[q].CodeSent

\* requests for the patient's record, claims and claim procedures
PatientRequests == {"patients/Simple", "claims?PatNum", "claimprocs?ClaimNum"}

FailedPatientRequest ==
    \E k \in DOMAIN requests :
        requests[k][1] \in PatientRequests /\ Fails(args.remote[1], requests[k])

\* C7: a request of the fallback, alone or under the orchestrator, that
\* fails while the patient is resolved or the patient's claims are read
\* makes the call raise.
C7_RemoteErrorsPropagate ==
    (FromFallback /\ FailedPatientRequest) => raised

(***************************************************************************)
(* Malformed input                                                         *)
(***************************************************************************)
\* dddd-dd-dd; a string of another shape is no %Y-%m-%d date
DateShaped(s) ==
    /\ Len(s) = 10
    /\ s[5] = "-" /\ s[8] = "-"
    /\ \A k \in {1, 2, 3, 4, 6, 7, 9, 10} : s[k] \in Digits

\* a date that does not parse, or neither a patient nor a subscriber name
MalformedCriteria(criteria) ==
    \/ ~DateShaped(criteria.date_of_service)
    \/ /\ criteria.patient_first_name = <<>> \/ criteria.patient_last_name = <<>>
       /\ criteria.subscriber_first_name = <<>>
              \/ criteria.subscriber_last_name = <<>>

WellFormedCached(claim) ==
    /\ DateShaped(claim.date_of_service)
    /\ claim.patient_first_name # <<>>
    /\ claim.patient_last_name # <<>>

WellFormedApiClaim(api_claim) == DateShaped(api_claim.DateService)

\* the cache and the remote without their malformed candidates
WithoutMalformedCached(cache) ==
    [claims |-> SelectSeq(cache.claims, WellFormedCached)]

WithoutMalformedClaims(remote) ==
    [remote EXCEPT
        !.claims_by_pat =
            [k \in DOMAIN @ |-> SelectSeq(@[k], WellFormedApiClaim)],
        !.claims_by_inssub =
            [k \in DOMAIN @ |-> SelectSeq(@[k], WellFormedApiClaim)]]

SameOutcome(result) == ret = result.val /\ raised = result.exc

\* C8: a candidate with a missing or unparseable date or a missing patient
\* name changes nothing but its own evaluation: each path answers as it
\* does without that candidate, and a cache whose records all have their
\* claim and patient numbers never raises.  Criteria with an unparseable
\* date or without names make each path return the empty list.
C8_MalformedInputSkipped ==
    pc = "done" =>
        /\ (op \in {CachePath, TwoStage, Fallback}
                /\ MalformedCriteria(args.criteria)) => (ret = <<>> /\ ~raised)
        /\ op = CachePath =>
               /\ SameOutcome(FilterCachedClaims(args.criteria,
                      WithoutMalformedCached(args.claims_data[1])))
               /\ (\A c \in Range(args.claims_data[1].claims) :
                       c.claim_num # 0 /\ c.pat_num # 0) => ~raised
        /\ op = TwoStage =>
               SameOutcome(FindMatchingClaims(
                   WithoutMalformedClaims(args.remote[1]), args.criteria))
        /\ op = Fallback =>
               SameOutcome(FindMatchingClaimsApiFallback(
                   WithoutMalformedClaims(args.remote[1]), args.criteria,
                   args.skip_api_fallback))

\* a record without a parseable date ahead of one that matches
C8_Witness ==
    /\ Finished(CachePath)
    /\ Len(args.claims_data[1].claims) = 2
    /\ ~WellFormedCached(args.claims_data[1].claims[1])
    /\ ret # <<>>
    /\ ret[1].claim_num = args.claims_data[1].claims[2].claim_num
    /\ ~raised

(***************************************************************************)
(* The name functions                                                      *)
(***************************************************************************)
InitNames == Idle

NextNames ==
    \/ CallAreNamesRelated
    \/ CallGetNameVariations
    \/ CallNameMatchScore
    \/ CallScoreCandidate
    \/ Return

SpecNames == InitNames /\ [][NextNames]_vars

ShareGroup(name1, name2) ==
    \E g \in DOMAIN NICKNAME_GROUPS :
        Lower(name1) \in NICKNAME_GROUPS[g] /\ Lower(name2) \in NICKNAME_GROUPS[g]

\* the candidate of the example: nickname-equivalent owner, equal last
\* name, the criteria date, status Sent, the criteria's single code
NicknameCandidate ==
    /\ op = "_score_api_claim_candidate"
    /\ ShareGroup(args.owner.FName, args.criteria.patient_first_name)
    /\ args.owner.LName = args.criteria.patient_last_name
    /\ args.api_claim.DateService = args.criteria.date_of_service
    /\ args.api_claim.ClaimStatus = "S"
    /\ Len(args.procs) = 1 /\ Len(args.criteria.procedures) = 1
    /\ args.procs[1].CodeSent = args.criteria.procedures[1].proc_code

\* C10: two first names of one nickname group are related and score 15 as
\* first names, 30 with equal last names; a Sent claim of the criteria date
\* and code whose owner has such a first name and the same last name is
\* scored at least 95.
C10_NicknamesAccepted ==
    /\ (op = "are_names_related" /\ ShareGroup(args[1], args[2])) =>
           ret = <<TRUE>>
    /\ (op = "_calculate_name_match_score_with_nicknames"
            /\ ShareGroup(args[1], args[3]) /\ args[2] = args[4]) =>
           /\ FnScoreComponent(Lower(args[3]), Lower(args[1])) = 15
           /\ ret = <<30>>
    /\ NicknameCandidate => ret[1] >= 95

\* criteria William Smith against a claim of Bill Smith
C10_Witness ==
    /\ NicknameCandidate
    /\ args.criteria.patient_first_name = William
    /\ args.owner.FName = Bill
    /\ args.procs[1].CodeSent = D0120
    /\ ret[1] = 100

\* C9: normalize_procedure_code is idempotent on every code string.
C9_Idempotent ==
    op = "normalize_procedure_code" => NormalizeProcedureCode(ret) = ret

(***************************************************************************)
(* The procedure gate and its overrides                                    *)
(***************************************************************************)
\* the criteria name the cache path compares with: the patient's, or the
\* subscriber's when the patient's is blank
CriteriaNameToUse(criteria) ==
    IF ~IsBlank(criteria.patient_first_name) /\ ~IsBlank(criteria.patient_last_name)
    THEN <<criteria.patient_first_name, criteria.patient_last_name>>
    ELSE <<criteria.subscriber_first_name, criteria.subscriber_last_name>>

\* the normalized codes of the lines that have one
NormalizedCodes(procs) ==
    LET with_code == SelectSeq(procs, LAMBDA q : q.proc_code # <<>>)
    IN  [k \in DOMAIN with_code |-> NormalizeProcedureCode(with_code[k].proc_code)]

CachedNameGate(claim, criteria) ==
    NameGate(claim.patient_first_name, claim.patient_last_name,
             CriteriaNameToUse(criteria)[1], CriteriaNameToUse(criteria)[2])

\* a cached record past the date, status and name gates
PastNameGateCached(claim, criteria) ==
    /\ ParseDate(claim.date_of_service) # <<>>
    /\ ParseDate(claim.date_of_service) = ParseDate(criteria.date_of_service)
    /\ CachedStatusPasses(claim)
    /\ claim.patient_first_name # <<>> /\ claim.patient_last_name # <<>>
    /\ CachedNameGate(claim, criteria) # <<>>

\* both sides have codes and at most 49% of them overlap
LowOverlap(payment_codes, claim_codes) ==
    /\ payment_codes # <<>> /\ claim_codes # <<>>
    /\ ~Above49(MatchProcedureCodes(payment_codes, claim_codes))

\* the fee-array override's conditions hold for a cached record
FeeOverrideCached(claim, criteria) ==
    /\ PastNameGateCached(claim, criteria)
    /\ LowOverlap(NormalizedCodes(criteria.procedures), NormalizedCodes(claim.procedures))
    /\ HasStrongNonProcedureMatchWithFees(ParseDate(claim.date_of_service),
           ParseDate(criteria.date_of_service), CachedNameGate(claim, criteria)[1],
           claim.procedures, criteria.procedures)

\* the matches of the result built from claim number n
MatchesOf(n) == {k \in DOMAIN ret : ret[k].claim_num = n}

\* the lines the remote accessor holds for a returned match, as the cached
\* lines are written
RemoteLinesOf(m) ==
    LET raw == Lookup(args.remote[1].claimprocs, m.claim_num)
    IN  [k \in DOMAIN raw |->
            [proc_code |-> raw[k].CodeSent, fee_billed |-> raw[k].FeeBilled]]

\* the fee-array override's conditions hold for a returned remote match,
\* at the name score its score stands for
FeeOverrideRemote(m) ==
    /\ LowOverlap(NormalizedCodes(args.criteria.procedures),
                  NormalizedCodes(RemoteLinesOf(m)))
    /\ HasStrongNonProcedureMatchWithFees(ParseDate(m.date_of_service),
           ParseDate(args.criteria.date_of_service), m.match_score[1] - 70,
           RemoteLinesOf(m), args.criteria.procedures)

\* C11: a candidate with at most 49% code overlap for which the fee-array
\* override's conditions hold yields exactly one match, scored 70 + name
\* score (plus the subscriber bonus of the cache path), and tagged
\* database_alternate_benefit on the cache path and api_alternate_benefit
\* on the remote path, whether or not the procedure counts are equal too.
C11_FeeOverrideTag ==
    /\ (Finished(CachePath) /\ ~raised) =>
           \A claim \in Range(args.claims_data[1].claims) :
               FeeOverrideCached(claim, args.criteria) =>
                   /\ Cardinality(MatchesOf(claim.claim_num)) = 1
                   /\ \A k \in MatchesOf(claim.claim_num) :
                          /\ ret[k].match_score =
                                 <<70 + CachedNameGate(claim, args.criteria)[1]
                                      + SubscriberBonusPoints(claim, args.criteria)>>
                          /\ ret[k].match_source = "database_alternate_benefit"
    /\ Finished(TwoStage) =>
           \A k \in DOMAIN ret :
               FeeOverrideRemote(ret[k]) =>
                   /\ Cardinality(MatchesOf(ret[k].claim_num)) = 1
                   /\ ret[k].match_source = "api_alternate_benefit"

(***************************************************************************)
(* The gates on their own: one candidate against one criteria, scored by   *)
(* _score_api_claim_candidate and, as the only record of a cache, by       *)
(* filter_cached_claims                                                    *)
(***************************************************************************)
Emma == <<"E", "m", "m", "a">>

Jones == <<"J", "o", "n", "e", "s">>

Snith == <<"S", "n", "i", "t", "h">>

Smit == <<"S", "m", "i", "t">>

Schmidt == <<"S", "c", "h", "m", "i", "d", "t">>

OtherDate == <<"2", "0", "2", "4", "-", "0", "3", "-", "0", "6">>

\* criteria names: as the owner's, first and last exchanged, another
\* person's, and a last name one letter off
GateNameSet == {<<William, Smith>>, <<Smith, William>>, <<Emma, Jones>>, <<William, Snith>>}

\* criteria lines: none, the claim's code, another code with the claim's
\* fee, another code with another fee, two lines of another code
GateProcedureSet ==
    {<<>>,
     <<[proc_code |-> D0120, submitted_amt |-> 5000, amount_paid |-> 4000]>>,
     <<[proc_code |-> D1110, submitted_amt |-> 5000, amount_paid |-> 4000]>>,
     <<[proc_code |-> D1110, submitted_amt |-> 9000, amount_paid |-> 4000]>>,
     <<[proc_code |-> D1110, submitted_amt |-> 9000, amount_paid |-> 4000],
       [proc_code |-> D1110, submitted_amt |-> 8000, amount_paid |-> 4000]>>}

GateCriteriaSet ==
    {[GoodCriteria EXCEPT !.patient_first_name = name[1],
                          !.patient_last_name = name[2],
                          !.procedures = procedures] :
        name \in GateNameSet, procedures \in GateProcedureSet}
    \cup {BadDateCriteria}

GateClaimSet ==
    {[ApiPrimary EXCEPT !.ClaimStatus = status] : status \in {"S", "H", "R", "X"}}
    \cup {[ApiPrimary EXCEPT !.DateService = day] : day \in {OtherDate, SlashDate}}
    \cup {[ApiPrimary EXCEPT !.ClaimStatus = "R", !.ClaimType = "S"]}

GateOwnerSet ==
    {[PatNum |-> 1, FName |-> William, LName |-> ln] : ln \in {Smith, Smit, Schmidt}}

\* claim lines: none, one line, one line without a code, two lines
GateLinesSet ==
    {<<>>,
     <<[CodeSent |-> Bare0120, FeeBilled |-> 5000]>>,
     <<[CodeSent |-> <<>>, FeeBilled |-> 5000]>>,
     <<[CodeSent |-> Bare0120, FeeBilled |-> 5000],
       [CodeSent |-> D1110, FeeBilled |-> 7000]>>}

\* the cached record of a claim, its owner and its lines
GateCached(api_claim, owner, lines) ==
    [claim_num |-> api_claim.ClaimNum, pat_num |-> api_claim.PatNum,
     date_of_service |-> api_claim.DateService,
     claim_status |-> api_claim.ClaimStatus, is_secondary |-> "absent",
     plan_type |-> "", ClaimType |-> api_claim.ClaimType,
     patient_first_name |-> owner.FName, patient_last_name |-> owner.LName,
     subscriber_first_name |-> <<>>, subscriber_last_name |-> <<>>,
     procedures |-> [k \in DOMAIN lines |->
                        [proc_code |-> lines[k].CodeSent,
                         fee_billed |-> lines[k].FeeBilled]],
     is_supplemental |-> FALSE, has_secondary_plan |-> FALSE]

CallScoreGate ==
    \E api_claim \in GateClaimSet, procs \in GateLinesSet,
       criteria \in GateCriteriaSet, owner \in GateOwnerSet :
        ScoreCandidateReturns(api_claim, procs, criteria, owner,
            ScoreApiClaimCandidate(api_claim, procs, criteria, owner))

CachedGateReturns(criteria, claim, result) ==
    /\ pc = "idle"
    /\ Completes(CachePath, Arguments(criteria, <<[claims |-> <<claim>>]>>, FALSE, <<>>),
                 result)

CallCachedGate ==
    \E api_claim \in GateClaimSet, procs \in GateLinesSet,
       criteria \in GateCriteriaSet, owner \in GateOwnerSet :
        CachedGateReturns(criteria, GateCached(api_claim, owner, procs),
            FilterCachedClaims(criteria,
                [claims |-> <<GateCached(api_claim, owner, procs)>>]))

\* fee lists in cents: none, a zero fee, single fees that are equal, $1.00
\* apart, 2% apart and further apart, and five fees of which all, four or
\* three find their pair
GateFeesSet ==
    {<<>>, <<0>>, <<5000>>, <<5100>>, <<5101>>, <<4998>>, <<214>>, <<114>>,
     <<0, 5000>>, <<9000, 5000>>,
     <<1000, 2000, 3000, 4000, 5000>>,
     <<1000, 2000, 3000, 4000, 9000>>,
     <<1000, 2000, 3000, 8000, 9000>>}

FeeOverrideReturns(name_score, claim_procedures, eob_procedures, result) ==
    /\ pc = "idle"
    /\ Completes("_has_strong_non_procedure_match_with_fees",
                 [name_score |-> name_score, claim_procedures |-> claim_procedures,
                  eob_procedures |-> eob_procedures],
                 [val |-> <<result>>, reqs |-> <<>>, exc |-> FALSE])

\* the override as the gates call it, with the dates already found equal
CallFeeOverride ==
    \E score \in {20, 24, 25, 30},
       billed \in {[k \in DOMAIN fees |-> [fee_billed |-> fees[k]]] :
                       fees \in GateFeesSet},
       submitted \in {[k \in DOMAIN fees |-> [submitted_amt |-> fees[k]]] :
                          fees \in GateFeesSet} :
        FeeOverrideReturns(score, billed, submitted,
            HasStrongNonProcedureMatchWithFees(ParseDate(ServiceDate), ParseDate(ServiceDate),
                score, billed, submitted))

\* subscriber names: the cached subscriber's, its nickname, another first
\* name, another person, and names that lack a part or are blank
GateSubscriberSet ==
    {<<Bill, Smith>>, <<William, Smith>>, <<Emma, Smith>>, <<Emma, Jones>>,
     <<<<>>, Smith>>, <<Bill, <<" ">>>>}

\* the cache path on one claim with a subscriber name, against criteria with
\* a subscriber name
CallCachedSubscriber ==
    \E crit_sub \in GateSubscriberSet, claim_sub \in GateSubscriberSet,
       patient_last_name \in {Smith, Snith}, claim_last_name \in {Smith, Smit} :
        LET criteria == [GoodCriteria EXCEPT !.subscriber_first_name = crit_sub[1],
                                             !.subscriber_last_name = crit_sub[2],
                                             !.patient_last_name = patient_last_name]
            claim == [CachedPrimary EXCEPT !.subscriber_first_name = claim_sub[1],
                                           !.subscriber_last_name = claim_sub[2],
                                           !.patient_last_name = claim_last_name]
        IN  CachedGateReturns(criteria, claim,
                FilterCachedClaims(criteria, [claims |-> <<claim>>]))

CountOverrideReturns(name_score, claim_procedures, eob_procedures, result) ==
    /\ pc = "idle"
    /\ Completes("_has_procedure_count_match",
                 [name_score |-> name_score, claim_procedures |-> claim_procedures,
                  eob_procedures |-> eob_procedures],
                 [val |-> <<result>>, reqs |-> <<>>, exc |-> FALSE])

\* the count check as the gates call it, with the dates already found equal
CallCountOverride ==
    \E score \in {0, 19, 20, 30}, lines \in GateLinesSet, eob \in GateProcedureSet :
        CountOverrideReturns(score, lines, eob,
            HasProcedureCountMatch(ParseDate(ServiceDate), ParseDate(ServiceDate),
                score, lines, eob))

InitGates == Idle

NextGates ==
    \/ CallScoreGate
    \/ CallCachedGate
    \/ CallFeeOverride
    \/ CallCountOverride
    \/ CallCachedSubscriber
    \/ Return

SpecGates == InitGates /\ [][NextGates]_vars

Scorer == "_score_api_claim_candidate"

\* the candidate of the call in progress has passed the date and status
\* gates; FirstNameScore and SwappedNameScore are the two attempts of the
\* name gate on it
PastStatusGate ==
    \/ /\ Finished(Scorer)
       /\ ParseDate(args.api_claim.DateService) # <<>>
       /\ ParseDate(args.api_claim.DateService) = ParseDate(args.criteria.date_of_service)
       /\ args.api_claim.ClaimStatus \in {"S", "H"}
    \/ /\ Finished(CachePath)
       /\ Len(args.claims_data[1].claims) = 1
       /\ ParseDate(args.claims_data[1].claims[1].date_of_service) # <<>>
       /\ ParseDate(args.claims_data[1].claims[1].date_of_service)
              = ParseDate(args.criteria.date_of_service)
       /\ CachedStatusPasses(args.claims_data[1].claims[1])

CandidateName ==
    IF op = Scorer THEN <<args.owner.FName, args.owner.LName>>
    ELSE <<args.claims_data[1].claims[1].patient_first_name,
           args.claims_data[1].claims[1].patient_last_name>>

FirstNameScore ==
    CalculateNameMatchScore(CandidateName[1], CandidateName[2],
        args.criteria.patient_first_name, args.criteria.patient_last_name)

SwappedNameScore ==
    CalculateNameMatchScore(CandidateName[1], CandidateName[2],
        args.criteria.patient_last_name, args.criteria.patient_first_name)

\* the candidate was accepted, and the name score its score holds: the
\* score less the 70 points of the other gates and, on the cache path, less
\* the subscriber bonus
Accepted == IF op = Scorer THEN ret[1] # 0 ELSE ret # <<>>

AcceptedNameScore ==
    IF op = Scorer THEN ret[1] - 70
    ELSE ret[1].match_score[1] - 70
             - SubscriberBonusPoints(args.claims_data[1].claims[1], args.criteria)

\* neither side has a procedure line, so the procedure gate passes
NoProcedures ==
    /\ args.criteria.procedures = <<>>
    /\ IF op = Scorer THEN args.procs = <<>>
       ELSE args.claims_data[1].claims[1].procedures = <<>>

\* C12: past the date and status gates, a candidate whose name score is
\* below 20 is scored again with the criteria's first and last name
\* exchanged; it goes on with the first score when that is at least 20, with
\* the exchanged score when only that is at least 20, and is rejected when
\* both are below 20.
C12_NameGateSwapRetry ==
    PastStatusGate =>
        /\ (FirstNameScore < 20 /\ SwappedNameScore < 20) => ~Accepted
        /\ Accepted =>
               AcceptedNameScore =
                   IF FirstNameScore >= 20 THEN FirstNameScore ELSE SwappedNameScore
        /\ (NoProcedures /\ (FirstNameScore >= 20 \/ SwappedNameScore >= 20)) =>
               Accepted

\* criteria Smith William against a claim of William Smith: accepted with
\* the exchanged score of 30
C12_Witness ==
    /\ PastStatusGate
    /\ args.criteria.patient_first_name = Smith
    /\ args.criteria.patient_last_name = William
    /\ CandidateName = <<William, Smith>>
    /\ FirstNameScore < 20
    /\ Accepted
    /\ AcceptedNameScore = 30

(***************************************************************************)
(* The supplemental fallback                                               *)
(***************************************************************************)
\* the first word of the criteria's patient first name
FirstToken(name) ==
    IF SplitOn(name, Whitespace) = <<>> THEN <<>> ELSE SplitOn(name, Whitespace)[1]

\* the patient the fallback resolves, with the patient's claims
FallbackPatient ==
    GetEntityData(args.remote[1], args.criteria.patient_last_name,
                  FirstToken(args.criteria.patient_first_name), "patient").val

\* the lines of a claim whose normalized code is one of the criteria's
OverlappingLines(api_claim) ==
    SelectSeq(Lookup(args.remote[1].claimprocs, api_claim.ClaimNum),
              LAMBDA q : NormalizeProcedureCode(q.CodeSent)
                             \in Range(NormalizedCodes(args.criteria.procedures)))

\* match m was built from claim api_claim of the resolved patient
EmittedFrom(m, api_claim) ==
    /\ api_claim.ClaimNum = m.claim_num
    /\ m.pat_num = FallbackPatient.entity[1].PatNum
    /\ api_claim.ClaimStatus \in {"R", "S"}
    /\ ParseDate(api_claim.DateService) # <<>>
    /\ ParseDate(api_claim.DateService) = ParseDate(args.criteria.date_of_service)
    /\ m.claim_procs # <<>>
    /\ m.claim_procs = OverlappingLines(api_claim)

\* C13: every match of the supplemental fallback is built from a Received
\* or Sent claim of the patient resolved from the criteria's last name and
\* the first word of its first name, the claim has the criteria's date, and
\* the match's lines are the claim's lines whose normalized code is among
\* the criteria's codes, at least one.
C13_FallbackMatchesOverlap ==
    FromFallback =>
        \A k \in DOMAIN ret :
            /\ FallbackPatient.entity # <<>>
            /\ \E j \in DOMAIN FallbackPatient.claims :
                   EmittedFrom(ret[k], FallbackPatient.claims[j])

\* a first name of two words: the patient is found by the first one
C13_Witness ==
    /\ Finished(Fallback)
    /\ Len(SplitOn(args.criteria.patient_first_name, Whitespace)) = 2
    /\ \E k \in DOMAIN ret, j \in DOMAIN FallbackPatient.claims :
           /\ FallbackPatient.claims[j].ClaimStatus = "R"
           /\ EmittedFrom(ret[k], FallbackPatient.claims[j])

(***************************************************************************)
(* Determinism                                                             *)
(***************************************************************************)
\* the remote accessor of the call, asked on another day
RemoteOn(day) == [args.remote[1] EXCEPT !.today = day]

\* what the orchestrator returns from its arguments: the cache path's
\* matches, or the fallback's when there are none
OrchResult(remote) ==
    IF CachePathResult # <<>> \/ args.remote = <<>>
    THEN [val |-> CachePathResult, exc |-> FALSE]
    ELSE FindMatchingClaimsApiFallback(remote, args.criteria, args.skip_api_fallback)

\* the call in progress made again, with the same arguments, on that day
Rerun(day) ==
    CASE op = CachePath -> FilterCachedClaims(args.criteria, args.claims_data[1])
      [] op = TwoStage  -> FindMatchingClaims(RemoteOn(day), args.criteria)
      [] op = Fallback  ->
             FindMatchingClaimsApiFallback(RemoteOn(day), args.criteria,
                                           args.skip_api_fallback)
      [] op = OrchName  ->
             OrchResult(IF args.remote = <<>> THEN <<>> ELSE RemoteOn(day))

MatchingReturned == pc = "done" /\ op \in {CachePath, TwoStage, Fallback, OrchName}

CallDay == IF args.remote = <<>> THEN <<2024, 6, 1>> ELSE args.remote[1].today

C15_RelatedSymmetric ==
    op = "are_names_related" => ret = <<AreNamesRelated(args[2], args[1])>>

\* two names found related although the second is not among the variations
\* of the first
C15_Witness ==
    /\ op = "are_names_related"
    /\ ret = <<TRUE>>
    /\ args[1] # args[2]
    /\ Strip(Lower(args[2])) \notin GetNameVariations(args[1])

\* the groups of the table that list the name
GroupsOf(name) ==
    {g \in DOMAIN NICKNAME_GROUPS : Strip(Lower(name)) \in NICKNAME_GROUPS[g]}

\* C16: for a name of the table, get_name_variations returns the name and
\* every group that lists it; for a name in no group, the name alone.
C16_VariationsHoldGroups ==
    op = "get_name_variations" =>
        /\ Strip(Lower(args[1])) \in ret[1]
        /\ \A g \in GroupsOf(args[1]) : NICKNAME_GROUPS[g] \subseteq ret[1]
        /\ GroupsOf(args[1]) = {} => ret[1] = {Strip(Lower(args[1]))}

(***************************************************************************)
(* The score and the procedure gate of one candidate                       *)
(***************************************************************************)
\* the name score the candidate goes on with once the name gate has passed
PassingNameScore ==
    IF FirstNameScore >= 20 THEN FirstNameScore ELSE SwappedNameScore

PastNameGate == PastStatusGate /\ (FirstNameScore >= 20 \/ SwappedNameScore >= 20)

\* the candidate's procedure lines, as the cached lines are written
CandidateLines ==
    IF op = Scorer
    THEN [k \in DOMAIN args.procs |->
             [proc_code |-> args.procs[k].CodeSent,
              fee_billed |-> args.procs[k].FeeBilled]]
    ELSE args.claims_data[1].claims[1].procedures

CriteriaCodes ==
    [k \in DOMAIN args.criteria.procedures |-> args.criteria.procedures[k].proc_code]

CandidateCodes ==
    [k \in DOMAIN CandidateLines |-> NormalizeProcedureCode(CandidateLines[k].proc_code)]

\* more than 49% of the criteria's codes are found on the candidate
OverlapAbove49 == Above49(MatchProcedureCodes(CriteriaCodes, CandidateCodes))

FeeOverrideFires ==
    HasStrongNonProcedureMatchWithFees(ParseDate(args.criteria.date_of_service),
        ParseDate(args.criteria.date_of_service), PassingNameScore,
        CandidateLines, args.criteria.procedures)

CountOverrideFires ==
    HasProcedureCountMatch(ParseDate(args.criteria.date_of_service),
        ParseDate(args.criteria.date_of_service), PassingNameScore,
        CandidateLines, args.criteria.procedures)

\* the procedure gate as it is meant to decide
ProcedureGatePasses ==
    \/ args.criteria.procedures = <<>> /\ CandidateLines = <<>>
    \/ /\ args.criteria.procedures # <<>> /\ CandidateLines # <<>>
       /\ OverlapAbove49 \/ FeeOverrideFires \/ CountOverrideFires

\* C17: the remote scorer returns a nonzero score only for a candidate whose
\* service date parses and equals the criteria's, whose status is Sent or
\* Held, whose name score, as given or exchanged, is at least 20, and that
\* passed the procedure gate; the score is then 30 + 10 + name score + 30,
\* between 90 and 100, and any gate failing gives 0.
C17_ScoreOnlyPastGates ==
    Finished(Scorer) =>
        /\ ret[1] # 0 <=> (PastNameGate /\ ProcedureGatePasses)
        /\ ret[1] # 0 =>
               /\ args.api_claim.ClaimStatus \in {"S", "H"}
               /\ ret[1] = 30 + 10 + PassingNameScore + 30
               /\ ret[1] \in 90..100

\* a candidate at the floor of the name gate: last names one letter apart,
\* scored 90
C17_Witness ==
    /\ Finished(Scorer)
    /\ PastNameGate /\ ProcedureGatePasses
    /\ PassingNameScore = 20
    /\ ret[1] = 90

\* C19: past the date, status and name gates, the remote scorer and the
\* cache path accept a candidate when neither it nor the criteria has a
\* procedure line, reject it when exactly one of them has none, and when
\* both have some accept it exactly when the code overlap is above 49% or
\* the fee-array override or the procedure-count override fires.
C19_ProcedureGateDecision ==
    PastNameGate => (Accepted <=> ProcedureGatePasses)

\* C18: every match the cache path returns is a Sent or Held claim, or a
\* Received claim that the match reports as not secondary.
C18_ReceivedOnlyPrimary ==
    (Finished(CachePath) /\ ~raised) =>
        \A k \in DOMAIN ret :
            \/ ret[k].claim_status \in {"S", "H"}
            \/ ret[k].claim_status = "R" /\ ret[k].is_secondary = "False"

(***************************************************************************)
(* The fee-array override                                                  *)
(***************************************************************************)
\* the positive amounts of the lines, ascending, in cents
PositiveBilled ==
    LET fees == [k \in DOMAIN args.claim_procedures |-> args.claim_procedures[k].fee_billed]
        positive == SelectSeq(fees, LAMBDA fee : fee > 0)
    IN  SortedBy(positive, positive)

PositiveSubmitted ==
    LET fees == [k \in DOMAIN args.eob_procedures |-> args.eob_procedures[k].submitted_amt]
        positive == SelectSeq(fees, LAMBDA fee : fee > 0)
    IN  SortedBy(positive, positive)

\* two amounts of cents differ by at most $1.00 or by at most 2% of the
\* larger one
WithinTolerance(pms_cents, eob_cents) ==
    LET apart == IF pms_cents >= eob_cents THEN pms_cents - eob_cents
                 ELSE eob_cents - pms_cents
    IN  apart <= 100 \/ 100 * apart <= 2 * Max2(pms_cents, eob_cents)

PairsWithinTolerance ==
    Cardinality({k \in DOMAIN PositiveBilled :
                    WithinTolerance(PositiveBilled[k], PositiveSubmitted[k])})

\* C20: the fee-array override succeeds exactly when the name score is at
\* least 25, the claim has as many positive billed fees as the criteria have
\* positive submitted amounts, at least one, and at least 80% of the pairs of
\* the two ascending lists differ by at most $1.00 or by at most 2% of the
\* larger amount.
C20_FeeOverrideIff ==
    Finished("_has_strong_non_procedure_match_with_fees") =>
        (ret[1] <=>
            /\ args.name_score >= 25
            /\ Len(PositiveBilled) = Len(PositiveSubmitted)
            /\ Len(PositiveBilled) > 0
            /\ 10 * PairsWithinTolerance >= 8 * Len(PositiveBilled))

(***************************************************************************)
(* The procedure-count override                                            *)
(***************************************************************************)
CountCheck == "_has_procedure_count_match"

\* the candidate has as many procedure lines as the criteria
SameLineCount == Len(CandidateLines) = Len(args.criteria.procedures)

\* C21: the procedure-count override fires exactly when the name score is
\* at least 20 and the claim has as many procedure lines as the criteria;
\* so every candidate of the remote scorer and of the cache path that
\* passed the date, status and name gates and has as many lines as the
\* criteria is accepted, whatever its codes and fees.
C21_CountOverrideIff ==
    /\ Finished(CountCheck) =>
           (ret[1] <=> /\ args.name_score >= 20
                       /\ Len(args.claim_procedures) = Len(args.eob_procedures))
    /\ (PastNameGate /\ SameLineCount) => Accepted

\* a candidate whose one code and fee are not the criteria's, accepted on
\* the count alone
C21_Witness ==
    /\ Finished(Scorer)
    /\ PastNameGate /\ SameLineCount
    /\ ~OverlapAbove49 /\ ~FeeOverrideFires
    /\ ret = <<70 + PassingNameScore, TRUE, "count_match">>

(***************************************************************************)
(* The overlap of two lists of procedure codes                             *)
(***************************************************************************)
CodeMatch == "_match_procedure_codes"

\* the set of normalized codes of a list
NormalizedSet(codes) == {NormalizeProcedureCode(c) : c \in Range(codes)}

\* C22: _match_procedure_codes returns 0 when either list is empty and
\* otherwise the share of the payment's normalized codes that are among the
\* claim's normalized codes; the value is between 0 and 1, is the one of the
\* lists without their repeats and of any claim list with the same set of
\* codes, and is 1 when both lists repeat one code with equal normal forms.
C22_OverlapOfNormalizedSets ==
    Finished(CodeMatch) =>
        LET payment == NormalizedSet(args.payment_codes)
            claim == NormalizedSet(args.db_codes)
        IN  /\ ret[2] > 0 /\ ret[1] >= 0 /\ ret[1] <= ret[2]
            /\ (args.payment_codes = <<>> \/ args.db_codes = <<>>) => ret[1] = 0
            /\ (args.payment_codes # <<>> /\ args.db_codes # <<>>) =>
                   ret[1] * Cardinality(payment)
                       = Cardinality(payment \cap claim) * ret[2]
            /\ (Cardinality(payment) = 1 /\ payment = claim) => ret[1] = ret[2]

\* two of the payment's three lines repeat a code; the claim has that code
\* alone, written in two other ways
C22_Witness ==
    /\ Finished(CodeMatch)
    /\ Len(args.payment_codes) = 3
    /\ Cardinality(NormalizedSet(args.payment_codes)) = 2
    /\ Range(args.payment_codes) \cap Range(args.db_codes) = {}
    /\ Cardinality(Range(args.db_codes)) = 2
    /\ ret = <<1, 2>>

(***************************************************************************)
(* The result of the remote two-stage search                               *)
(***************************************************************************)
\* the remote search has returned its matches
TwoStageReturned == Finished(TwoStage) /\ ~raised

\* the claim numbers the search asked the procedures of, one per scoring
ScoredClaimNums ==
    LET asked == SelectSeq(requests, LAMBDA req : req[1] = "claimprocs?ClaimNum")
    IN  [k \in DOMAIN asked |-> asked[k][2]]

\* C23: the result of the remote two-stage search has no two matches with
\* the same claim number, also when the patient stage and the subscriber
\* stage both return a claim, and every match has a score of at least 89.
C23_NoDuplicatesAboveFloor ==
    TwoStageReturned =>
        /\ \A j, k \in DOMAIN ret : j # k => ret[j].claim_num # ret[k].claim_num
        /\ \A k \in DOMAIN ret : ret[k].match_score[1] >= MIN_ACCEPTABLE_SCORE

\* claim 21 is among the patient's claims and among the subscription's; it
\* is scored once and returned once, with the subscription's other claim
C23_Witness ==
    /\ TwoStageReturned
    /\ ApiPrimary \in Range(Lookup(args.remote[1].claims_by_pat, 1))
    /\ ApiPrimary \in Range(Lookup(args.remote[1].claims_by_inssub, 5))
    /\ <<"claims?InsSubNum", 5>> \in Range(requests)
    /\ Cardinality({k \in DOMAIN ScoredClaimNums : ScoredClaimNums[k] = 21}) = 1
    /\ Cardinality({k \in DOMAIN ret : ret[k].claim_num = 21}) = 1
    /\ \E k \in DOMAIN ret : ret[k].claim_num = 25

(***************************************************************************)
(* Entity resolution on its own: _get_entity_data called with a last name  *)
(* of one or several parts against a remote that answers some lookups      *)
(***************************************************************************)
Navarro == <<"N", "a", "v", "a", "r", "r", "o">>

Cedillo == <<"C", "e", "d", "i", "l", "l", "o">>

NavarroCedillo == Navarro \o <<" ">> \o Cedillo

\* a last name of three parts, the last of one letter
DeLaO == <<"D", "e", "-", "L", "a", " ", "O">>

EntityLastNames == {Smith, NavarroCedillo, DeLaO}

\* every lookup that entity resolution could issue for a last name
LookupsFor(last_name, first_name) ==
    {<<last_name, first_name>>, <<last_name, <<>>>>}
    \cup {<<part, first_name>> : part \in Range(SplitOn(last_name, NameSeps))}

EntityLookups == UNION {LookupsFor(last_name, William) : last_name \in EntityLastNames}

\* the remote answers no lookup, or one lookup with William Smith or with
\* Emma Smith, or all of them with William Smith
EntitySimpleTables ==
    {<<>>}
    \cup {key :> <<[PatNum |-> 1, FName |-> fn, LName |-> Smith]>> :
             key \in EntityLookups, fn \in {William, Emma}}
    \cup {[key \in EntityLookups |-> <<PatientWilliam>>]}

EntityRemoteSet ==
    {[RemoteWithClaims EXCEPT !.simple = table, !.failing = f] :
        table \in EntitySimpleTables,
        f \in {{}, {"patients/Simple"}, {"claims?PatNum"}}}

EntityData == "_get_entity_data"

EntityDataReturns(last_name, first_name, entity_type, remote, result) ==
    /\ pc = "idle"
    /\ Completes(EntityData,
                 [last_name |-> last_name, first_name |-> first_name,
                  entity_type |-> entity_type, remote |-> remote],
                 result)

CallGetEntityData ==
    \E last_name \in EntityLastNames, entity_type \in {"patient", "subscriber"},
       remote \in EntityRemoteSet :
        EntityDataReturns(last_name, William, entity_type, remote,
            GetEntityData(remote, last_name, William, entity_type))

InitEntity == Idle

NextEntity == CallGetEntityData \/ Return

SpecEntity == InitEntity /\ [][NextEntity]_vars

\* the name lookups of the call, in the order they were issued
NameLookups ==
    LET issued == SelectSeq(requests, LAMBDA req : req[1] = "patients/Simple")
    IN  [k \in DOMAIN issued |-> issued[k][2]]

\* what the remote answers to a name lookup
Candidates(key) == Lookup(args.remote.simple, key)

\* the parts of the last name that are looked up: those of two letters or
\* more, when there are several of them
PartsTried ==
    IF Len(LastNameParts(args.last_name)) > 1 THEN LastNameParts(args.last_name)
    ELSE <<>>

\* the escalating order: the full last name with the first name, each part
\* with the first name, the last name alone
EscalatingOrder ==
    <<<<args.last_name, args.first_name>>>>
    \o [k \in DOMAIN PartsTried |-> <<PartsTried[k], args.first_name>>]
    \o <<<<args.last_name, <<>>>>>>

\* C24: entity resolution issues its name lookups in a fixed escalating
\* order, (1) the full last name with the first name, (2) each part of a
\* last name of several parts with the first name, in order, (3) the last
\* name alone; a lookup is issued only if every earlier one returned no
\* candidate, so no part is tried after a part that returned one.  The
\* parts are those the code splits off: of two letters or more.
C24_EscalatingLookups ==
    Finished(EntityData) =>
        /\ \A k \in DOMAIN NameLookups :
               k <= Len(EscalatingOrder) => NameLookups[k] = EscalatingOrder[k]
        /\ \A j, k \in DOMAIN NameLookups :
               j < k => Candidates(NameLookups[j]) = <<>>

\* the second part of the last name answers: the full name and the first
\* part were asked before it, nothing after it
C24_Witness ==
    /\ Finished(EntityData)
    /\ args.last_name = NavarroCedillo
    /\ args.remote.failing = {}
    /\ NameLookups = <<<<NavarroCedillo, William>>, <<Navarro, William>>,
                       <<Cedillo, William>>>>
    /\ Candidates(<<Cedillo, William>>) # <<>>
    /\ ret.entity = <<PatientWilliam>>

\* the full-name lookup, the lookups of the parts and the last-name-only
\* lookup were all answered, and none gave a candidate that was accepted
NoAcceptedCandidate ==
    /\ Finished(EntityData)
    /\ "patients/Simple" \notin args.remote.failing
    /\ \A k \in 1..(Len(EscalatingOrder) - 1) : Candidates(EscalatingOrder[k]) = <<>>
    /\ SelectBestFirstName(Candidates(<<args.last_name, <<>>>>), args.first_name) = <<>>

SeveralParts == Len(LastNameParts(args.last_name)) > 1

\* the lookup of the trailing part of the last name with the first name
TrailingPartLookup ==
    <<LastNameParts(args.last_name)[Len(LastNameParts(args.last_name))], args.first_name>>

\* C25: when the full-name lookup, the lookups of the parts and the
\* last-name-only lookup have produced no accepted candidate and the last
\* name has several parts, entity resolution issues one further lookup, of
\* the trailing part of the last name with the first name, and uses its
\* result if it is not empty.
C25_TrailingPartLookup ==
    (NoAcceptedCandidate /\ SeveralParts) =>
        /\ NameLookups = Append(EscalatingOrder, TrailingPartLookup)
        /\ Candidates(TrailingPartLookup) # <<>> => ret.entity # <<>>

(***************************************************************************)
(* The secondary plan of a match built from remote data                    *)
(***************************************************************************)
\* the plans the remote accessor lists for a patient
PlansOf(pat_num) == Lookup(args.remote[1].patplans, pat_num)

\* the call asked for the patient's plans and was answered with several
PlanLookupConfirms(pat_num) ==
    /\ <<"patplans?PatNum", pat_num>> \in Range(requests)
    /\ "patplans?PatNum" \notin args.remote[1].failing
    /\ Len(PlansOf(pat_num)) > 1

\* C26: a match built from remote data, by the two-stage search or by the
\* supplemental fallback, has has_secondary_plan only if a plan lookup for
\* the claim's patient returned more than one plan; the secondary plan and
\* subscription fields of the claim alone, or a failed plan lookup, never
\* give has_secondary_plan.
C26_SecondaryPlanConfirmed ==
    (pc = "done" /\ op \in {TwoStage, Fallback} /\ ~raised) =>
        \A k \in DOMAIN ret :
            ret[k].has_secondary_plan => PlanLookupConfirms(ret[k].pat_num)

(***************************************************************************)
(* The score of a cache-path match                                         *)
(***************************************************************************)
\* the one cached claim of the call
CachedCandidate == args.claims_data[1].claims[1]

\* a first or last name is missing or blank
LacksName(first_name, last_name) == IsBlank(first_name) \/ IsBlank(last_name)

\* the score of the criteria subscriber name against the cached claim's
SubscriberNameScore ==
    CalculateNameMatchScore(CachedCandidate.subscriber_first_name,
        CachedCandidate.subscriber_last_name,
        args.criteria.subscriber_first_name, args.criteria.subscriber_last_name)

SubscriberBonus ==
    IF LacksName(args.criteria.subscriber_first_name, args.criteria.subscriber_last_name)
       \/ LacksName(CachedCandidate.subscriber_first_name,
                    CachedCandidate.subscriber_last_name) THEN 0
    ELSE IF SubscriberNameScore = 30 THEN 15
    ELSE IF SubscriberNameScore >= 15 THEN 8
    ELSE 0

\* C27: the score of a cache-path match is 70 + name score + subscriber
\* bonus; the bonus is 15 when the criteria subscriber name scores 30
\* against the cached claim's subscriber name, 8 when it scores at least 15
\* and less than 30, and 0 otherwise or when either side lacks a subscriber
\* first or last name; the score is between 90 and 115 and is above 100
\* only with a bonus.
C27_CacheScore ==
    (Finished(CachePath) /\ ~raised /\ Len(args.claims_data[1].claims) = 1) =>
        \A k \in DOMAIN ret :
            /\ ret[k].match_score[1] = 70 + PassingNameScore + SubscriberBonus
            /\ ret[k].match_score[1] \in 90..115
            /\ ret[k].match_score[1] > 100 => SubscriberBonus > 0

\* a match at the floor of the name gate with the partial bonus
C27_Witness ==
    /\ Finished(CachePath) /\ ~raised
    /\ Len(ret) = 1
    /\ PassingNameScore = 20
    /\ SubscriberNameScore \in 15..29
    /\ ret[1].match_score = <<98>>

(***************************************************************************)
(* The subscriber stage of the remote search on its own: the claims of     *)
(* the subscription belong to the subscriber's dependents                  *)
(***************************************************************************)
PatientEmma == [PatNum |-> 3, FName |-> Emma, LName |-> Smith]

\* a record that came back without its patient identifier
PatientUnnumbered == [PatNum |-> 0, FName |-> Emma, LName |-> Smith]

ApiOfDependent == [ApiPrimary EXCEPT !.ClaimNum = 31, !.PatNum = 3, !.InsSubNum2 = 0]

ApiNoPatNum == [ApiOfDependent EXCEPT !.ClaimNum = 32, !.PatNum = 0]

\* the claim of a patient the remote does not know
ApiOfUnknown == [ApiOfDependent EXCEPT !.ClaimNum = 33, !.PatNum = 9]

ApiOfUnnumbered == [ApiOfDependent EXCEPT !.ClaimNum = 34, !.PatNum = 8]

SubscriptionClaims ==
    {ApiPrimary, ApiOfDependent, ApiNoPatNum, ApiOfUnknown, ApiOfUnnumbered}

SubscriptionLists ==
    {<<>>} \cup {<<c>> : c \in SubscriptionClaims}
           \cup {<<c, d>> : c \in SubscriptionClaims, d \in SubscriptionClaims}

DependentCriteria == [GoodCriteria EXCEPT !.patient_first_name = Emma]

RemoteWithDependents(claims_for_sub, failing) ==
    [simple           |-> (<<Smith, William>> :> <<PatientWilliam>>)
                          @@ (<<Smith, Bill>> :> <<SubscriberBill>>),
     claims_by_pat    |-> (1 :> <<ApiPrimary>>),
     claims_by_inssub |-> (5 :> claims_for_sub),
     claimprocs       |-> [n \in {21, 31, 32, 33, 34} |->
                              <<[CodeSent |-> D0120, FeeBilled |-> 5000]>>],
     patients         |-> (1 :> <<PatientWilliam>>) @@ (3 :> <<PatientEmma>>)
                          @@ (8 :> <<PatientUnnumbered>>),
     inssubs          |-> (2 :> <<[InsSubNum |-> 5, DateTerm |-> NeverTerminated]>>),
     patplans         |-> <<>>,
     failing          |-> failing,
     today            |-> <<2024, 6, 1>>]

CallSubscriberSearch ==
    \E criteria \in {GoodCriteria, DependentCriteria, NoPatientCriteria},
       claims_for_sub \in SubscriptionLists, failing \in {{}, {"patients"}} :
        FindMatchingClaimsReturns(criteria,
            RemoteWithDependents(claims_for_sub, failing),
            FindMatchingClaims(RemoteWithDependents(claims_for_sub, failing),
                               criteria))

InitSubscriber == Idle

NextSubscriber == CallSubscriberSearch \/ Return

SpecSubscriber == InitSubscriber /\ [][NextSubscriber]_vars

\* the claims the subscription returned to the call
ClaimsForSub == Lookup(args.remote[1].claims_by_inssub, 5)

\* the place of the request for the subscription's claims, 0 if none
SubscriptionAsked ==
    IF \E j \in DOMAIN requests : requests[j][1] = "claims?InsSubNum"
    THEN CHOOSE j \in DOMAIN requests : requests[j][1] = "claims?InsSubNum"
    ELSE 0

\* the places where the subscriber stage asked for the lines of a claim,
\* which it does for the claims it scores and for no other
SubscriberScorings ==
    {j \in DOMAIN requests : /\ SubscriptionAsked > 0 /\ j > SubscriptionAsked
                             /\ requests[j][1] = "claimprocs?ClaimNum"}

\* the patient a claim names, as the remote returns it
OwnerOf(api_claim) == Lookup(args.remote[1].patients, api_claim.PatNum)

Fetchable(api_claim) ==
    /\ api_claim.PatNum # 0
    /\ "patients" \notin args.remote[1].failing
    /\ OwnerOf(api_claim) # <<>>
    /\ OwnerOf(api_claim)[1].PatNum # 0

\* the claims that only the subscriber stage evaluates
OnlyOfSubscription ==
    {c \in Range(ClaimsForSub) :
        c \notin Range(Lookup(args.remote[1].claims_by_pat, 1))}

\* C28: in the subscriber stage each claim of the subscription is scored
\* against the patient its own PatNum names, who is fetched after the
\* claims and immediately before the scoring, and not against the
\* subscriber; a claim without PatNum, or whose patient cannot be
\* fetched, is never scored and never returned.
C28_ScoredAgainstOwner ==
    Finished(TwoStage) =>
        /\ \A j \in SubscriberScorings :
              \E c \in Range(ClaimsForSub) :
                  /\ c.ClaimNum = requests[j][2]
                  /\ Fetchable(c)
                  /\ requests[j - 1] = <<"patients", c.PatNum>>
        /\ ~raised =>
              \A k \in DOMAIN ret :
                  \A c \in OnlyOfSubscription :
                      c.ClaimNum = ret[k].claim_num =>
                          /\ Fetchable(c)
                          /\ ret[k].match_score[1] =
                                 ScoreApiClaimCandidate(c,
                                     Lookup(args.remote[1].claimprocs, c.ClaimNum),
                                     args.criteria, OwnerOf(c)[1])[1]
        /\ \A c \in OnlyOfSubscription :
              ~Fetchable(c) =>
                  /\ \A j \in SubscriberScorings : requests[j][2] # c.ClaimNum
                  /\ \A k \in DOMAIN ret : ret[k].claim_num # c.ClaimNum

\* the subscription of Bill Smith holds a claim of Emma Smith and a claim
\* without PatNum: Emma is fetched, her claim is scored against her name
\* and returned, and the other claim is not asked about
C28_Witness ==
    /\ Finished(TwoStage) /\ ~raised
    /\ args.criteria = DependentCriteria
    /\ ClaimsForSub = <<ApiNoPatNum, ApiOfDependent>>
    /\ <<"patients", 3>> \in Range(requests)
    /\ <<"claimprocs?ClaimNum", 31>> \in Range(requests)
    /\ <<"claimprocs?ClaimNum", 32>> \notin Range(requests)
    /\ Len(ret) = 1 /\ ret[1].claim_num = 31
    /\ ScoreApiClaimCandidate(ApiOfDependent,
           Lookup(args.remote[1].claimprocs, 31), args.criteria, SubscriberBill)[1] = 0

(***************************************************************************)
(* The order of a result list: the cache path and the remote two-stage     *)
(* search on candidates of different scores and of both claim types        *)
(***************************************************************************)
\* cached claims that score 115 and 105, primary and secondary, and one
\* whose is_secondary is the string 'false'
OrderedCached ==
    {[CachedPrimary EXCEPT !.claim_num = 41, !.is_secondary = "False"],
     [CachedPrimary EXCEPT !.claim_num = 42, !.is_secondary = "False",
                           !.patient_last_name = Smit],
     [CachedPrimary EXCEPT !.claim_num = 43, !.is_secondary = "True"],
     [CachedPrimary EXCEPT !.claim_num = 44, !.is_secondary = "True",
                           !.patient_last_name = Smit],
     [CachedPrimary EXCEPT !.claim_num = 45, !.is_secondary = "'false'"]}

MaxOrdered == 3

ListsOf(records) ==
    UNION {[1..n -> records] : n \in 0..MaxOrdered}

\* the patient's last name is misspelt: Smith scores 30 against it, Smit 20
SnithCriteria == [GoodCriteria EXCEPT !.patient_last_name = Snith]

CallOrderedCache ==
    \E claims \in ListsOf(OrderedCached) :
        FilterCachedClaimsReturns(SnithCriteria, [claims |-> claims],
            FilterCachedClaims(SnithCriteria, [claims |-> claims]))

PatientSmit == [PatNum |-> 4, FName |-> William, LName |-> Smit]

\* claims of the subscription that score 100 and 90, primary and secondary
OrderedApi ==
    {[ApiOfDependent EXCEPT !.ClaimNum = 51, !.PatNum = 1],
     [ApiOfDependent EXCEPT !.ClaimNum = 52, !.PatNum = 4],
     [ApiOfDependent EXCEPT !.ClaimNum = 53, !.PatNum = 1, !.ClaimType = "S"],
     [ApiOfDependent EXCEPT !.ClaimNum = 54, !.PatNum = 4, !.ClaimType = "S"]}

RemoteOrdered(claims_for_sub) ==
    [RemoteWithDependents(claims_for_sub, {}) EXCEPT
        !.claims_by_pat = <<>>,
        !.claimprocs = [n \in 51..54 |-> <<[CodeSent |-> D0120, FeeBilled |-> 5000]>>],
        !.patients = @ @@ (4 :> <<PatientSmit>>)]

CallOrderedSearch ==
    \E claims_for_sub \in ListsOf(OrderedApi) :
        FindMatchingClaimsReturns(SnithCriteria, RemoteOrdered(claims_for_sub),
            FindMatchingClaims(RemoteOrdered(claims_for_sub), SnithCriteria))

InitOrder == Idle

NextOrder == CallOrderedCache \/ CallOrderedSearch \/ Return

SpecOrder == InitOrder /\ [][NextOrder]_vars

\* the group of a match in the result: 2 when its is_secondary is true as
\* the partition tests it, 1 otherwise
GroupOf(m) == IF Truthy(m.is_secondary) THEN 2 ELSE 1

\* C29: in every non-empty result of the cache path and of the remote
\* two-stage search the matches whose is_secondary is False come before
\* those whose is_secondary is True, and the list is ordered by group
\* first and by score second: within a group the scores do not increase.
C29_GroupThenScore ==
    ((Finished(CachePath) \/ Finished(TwoStage)) /\ ~raised /\ ret # <<>>) =>
        \A j, k \in DOMAIN ret :
            j < k =>
                /\ ~(ret[j].is_secondary = "True" /\ ret[k].is_secondary = "False")
                /\ GroupOf(ret[j]) <= GroupOf(ret[k])
                /\ GroupOf(ret[j]) = GroupOf(ret[k])
                       => ret[j].match_score[1] >= ret[k].match_score[1]

\* a result of the remote search whose candidates were found in another
\* order: a primary match of the lower score stands before a secondary
\* match of the higher score, and each group has its higher score first
C29_Witness ==
    /\ Finished(TwoStage) /\ ~raised
    /\ [k \in DOMAIN ClaimsForSub |-> ClaimsForSub[k].ClaimNum] = <<54, 52, 53>>
    /\ [k \in DOMAIN ret |-> ret[k].claim_num] = <<52, 53, 54>>
    /\ [k \in DOMAIN ret |-> ret[k].match_score[1]] = <<90, 100, 90>>
    /\ [k \in DOMAIN ret |-> ret[k].is_secondary] = <<"False", "True", "True">>

(***************************************************************************)
(* An error of the cache path under the orchestrator                       *)
(***************************************************************************)
\* the cache search of the call raises
CacheSearchRaises ==
    /\ op = OrchName
    /\ args.claims_data # <<>>
    /\ FilterCachedClaims(args.criteria, args.claims_data[1]).exc

\* the claim numbers of the cached records of the call
CachedClaimNums ==
    {args.claims_data[1].claims[k].claim_num : k \in DOMAIN args.claims_data[1].claims}

\* C30: when the cache path raises on a cached record, the orchestrator
\* does not raise and keeps no cache match, not even of the records
\* accepted before the error: it goes on to the remote fallback and returns
\* what the fallback returns, or returns the empty list without a request
\* when the fallback is disabled.
C30_CacheErrorFallsBack ==
    (CacheSearchRaises /\ pc # "db_search") =>
        /\ ~raised
        /\ db_matches = <<>>
        /\ pc \in {"db_error", "api_fallback", "done"}
        /\ pc # "done" => ret = <<>>
        /\ pc = "done" =>
              /\ \A k \in DOMAIN ret : ret[k].claim_num \notin CachedClaimNums
              /\ IF args.skip_api_fallback
                 THEN ret = <<>> /\ requests = <<>> /\ args.remote = <<>>
                 ELSE /\ args.remote # <<>>
                      /\ ret = FindMatchingClaimsApiFallback(args.remote[1],
                                   args.criteria, FALSE).val

\* the first cached record is accepted and the second has no claim number:
\* the orchestrator returns the match of the fallback and nothing of the
\* cache
C30_Witness ==
    /\ CacheSearchRaises /\ pc = "done"
    /\ args.claims_data[1].claims = <<CachedPrimary, CachedNoClaimNum>>
    /\ FilterCachedClaims(args.criteria, [claims |-> <<CachedPrimary>>]).val # <<>>
    /\ ~args.skip_api_fallback
    /\ ret # <<>>

====
